---- MODULE Spec2Model ----
(***************************************************************************)
(* gbatchkit: the job document builder (jobs.py), the multi-task           *)
(* preparation (jobs.py) and the task argument resolver (inputs.py).       *)
(*                                                                         *)
(* Python values are modelled as follows.                                  *)
(*   dict            a function whose DOMAIN is the set of keys present    *)
(*   list            a sequence (Python index i is TLA+ index i + 1)       *)
(*   Optional[T]     None is <<>>, a value v is <<v>>                      *)
(*   pydantic model  [cls |-> class name, fields |-> dict of its fields]   *)
(*   float / int     a rational [num |-> n, den |-> d], d > 0              *)
(*   raise E         the operation's result carries exc = E                *)
(***************************************************************************)
EXTENDS Integers, Sequences, FiniteSets, TLC

VARIABLES
    csj_pc,      \* create_standard_job: the statement it is at
    csj_args,    \* create_standard_job: the arguments of the running call
    csj_job,     \* create_standard_job: its local variable job
    csj_calls,   \* create_standard_job: the functions it has called, in order
    csj_exc,     \* create_standard_job: the exception that ended the call
    heap,        \* the list objects built by add_job_dependencies' default
    b_job,       \* a document a caller builds with the builder steps
    b_last,      \* the builder step called last on b_job: name, arguments, exc
    d_docs,      \* documents that callers add dependencies to
    d_passed,    \* per document, the non-empty job ids passed for it so far
    fs,          \* the files smart_open reaches: path -> content
    p_job,       \* the document prepare_multitask_job is called on
    p_last,      \* the last call on p_job: name, arguments, exc, files opened
    environ,     \* os.environ of a task process
    argv,        \* sys.argv[1:] of a task process
    g_last,      \* the last get_task_arguments call: arguments and outcome
    s_pc,        \* submit_job: the statement it is at
    s_last,      \* submit_job: the arguments of the call and how it ended
    s_file,      \* submit_job: the content of the temporary file, None if absent
    s_events,    \* submit_job: the file writes and tool invocations of the call
    c_str,       \* parse_compute_config: its argument compute_str
    c_last,      \* parse_compute_config: the outcome of the call, None before it
    e_job,       \* a document whose environment variables a caller sets
    e_last       \* the last call on e_job: name, arguments, exc

csjVars == <<csj_pc, csj_args, csj_job, csj_calls, csj_exc>>
bVars == <<b_job, b_last>>
dVars == <<d_docs, d_passed>>
pVars == <<p_job, p_last>>
gVars == <<environ, argv, g_last>>
sVars == <<s_pc, s_last, s_file, s_events>>
cVars == <<c_str, c_last>>
eVars == <<e_job, e_last>>

vars == <<csjVars, heap, bVars, dVars, fs, pVars, gVars, sVars, cVars, eVars>>

(***************************************************************************)
(* Bounds of the model.                                                    *)
(***************************************************************************)
MaxRunnables == 2
MaxTaskCount == 2
MaxDisks == 2
MaxVolumes == 1
MaxNetworkInterfaces == 1
NumDocs == 2
MaxJobIds == 2

(***************************************************************************)
(* Python values.                                                          *)
(***************************************************************************)
None == <<>>
Some(v) == <<v>>
EmptyDict == [k \in {} |-> 0]
NoExc == "none"

\* dict.setdefault(k, v): the dict with k bound to v unless k is already a key.
SetDefault(d, k, v) == IF k \in DOMAIN d THEN d ELSE (k :> v) @@ d

\* d[k] = v
SetItem(d, k, v) == (k :> v) @@ d

\* bool(x) of an Optional[str] and of an Optional[list]: None and the empty
\* value are both falsy.
TruthyStr(o) == o # None /\ o[1] # ""
TruthyList(o) == o # None /\ Len(o[1]) > 0

\* bool(x) of an Optional[BaseModel]: a pydantic model defines neither
\* __bool__ nor __len__, so every instance is truthy.
TruthyModel(o) == o # None

Rat(n, d) == [num |-> n, den |-> d]

math_ceil_truncating(x) == IF x.num >= 0 THEN x.num \div x.den ELSE -((-x.num) \div x.den)

\* math.ceil of a rational with positive denominator.
math_ceil(x) == -((-x.num) \div x.den)

max(a, b) == IF a >= b THEN a ELSE b

\* BaseModel.model_dump(): the mapping of the model's fields.
model_dump(m) == m.fields

(***************************************************************************)
(* types.py: the input classes.                                            *)
(***************************************************************************)
ComputeConfig(machine_type, provisioning_model, accelerator_type, accelerator_count) ==
    [cls |-> "ComputeConfig",
     fields |-> [machine_type |-> machine_type,
                 provisioning_model |-> provisioning_model,
                 accelerator_count |-> accelerator_count,
                 accelerator_type |-> accelerator_type]]

ContainerRunnable(image_uri, entrypoint, commands) ==
    [cls |-> "ContainerRunnable",
     fields |-> [image_uri |-> image_uri, entrypoint |-> entrypoint,
                 commands |-> commands]]

\* An instance of the base class Runnable: no fields, not a container.
Runnable == [cls |-> "Runnable", fields |-> EmptyDict]

NetworkInterfaceConfig(network, subnetwork, no_external_ip_address) ==
    [cls |-> "NetworkInterfaceConfig",
     fields |-> [network |-> network, subnetwork |-> subnetwork,
                 no_external_ip_address |-> no_external_ip_address]]

ServiceAccountConfig(email, scopes) ==
    [cls |-> "ServiceAccountConfig",
     fields |-> [email |-> email, scopes |-> scopes]]

(***************************************************************************)
(* jobs.py: the builder steps.  Each returns [job, exc]: the document as   *)
(* the call leaves it and the exception it raised (NoExc when it returns). *)
(***************************************************************************)
preemption_retry_count == 3
RETRY_EXIT_CODE == 50001

Ok(job) == [job |-> job, exc |-> NoExc]
Raise(job, e) == [job |-> job, exc |-> e]

TaskSpec(job) == job.taskGroups[1].taskSpec
WithTaskSpec(job, ts) == [job EXCEPT !.taskGroups[1].taskSpec = ts]

create_job_base(task_count, task_count_per_node, parallelism) ==
    [taskGroups |-> <<
        [taskSpec |-> [runnables |-> <<>>,
                       maxRetryCount |-> preemption_retry_count,
                       lifecyclePolicies |-> <<
                           [action |-> "RETRY_TASK",
                            actionCondition |-> [exitCodes |-> <<RETRY_EXIT_CODE>>]]>>],
         taskCount |-> task_count,
         taskCountPerNode |-> task_count_per_node,
         parallelism |-> IF parallelism = 0 THEN 1 ELSE parallelism]>>]

add_runnable_prepend(job, runnable) ==
    LET ts == SetDefault(TaskSpec(job), "runnables", <<>>)
    IN  IF runnable.cls = "ContainerRunnable"
        THEN Ok(WithTaskSpec(job,
                 [ts EXCEPT !.runnables = <<[container |-> model_dump(runnable)]>> \o @]))
        ELSE Raise(WithTaskSpec(job, ts), "TypeError: Unsupported runnable type")

add_runnable(job, runnable) ==
    LET ts == SetDefault(TaskSpec(job), "runnables", <<>>)
    IN  IF runnable.cls = "ContainerRunnable"
        THEN Ok(WithTaskSpec(job,
                 [ts EXCEPT !.runnables = Append(@, [container |-> model_dump(runnable)])]))
        ELSE Raise(WithTaskSpec(job, ts), "TypeError: Unsupported runnable type")

\* Lines 224-243: the value assigned to job["allocationPolicy"], the
\* accelerator fields added when an accelerator type is set.
allocation_policy_always_gpu(region, cc) ==
    [instances |-> <<
        [policy |-> [machineType |-> cc.machine_type,
                     provisioningModel |-> cc.provisioning_model,
                     accelerators |-> <<[type |-> cc.accelerator_type,
                                         count |-> cc.accelerator_count]>>],
         installGpuDrivers |-> TRUE]>>,
     location |-> [allowedLocations |-> <<"regions/" \o region>>]]

allocation_policy(region, cc) ==
    LET policy == [machineType |-> cc.machine_type,
                   provisioningModel |-> cc.provisioning_model]
        location == [allowedLocations |-> <<"regions/" \o region>>]
    IN  IF cc.accelerator_type # ""
        THEN [instances |-> <<
                 [policy |-> SetItem(policy, "accelerators",
                                <<[type |-> cc.accelerator_type,
                                   count |-> cc.accelerator_count]>>),
                  installGpuDrivers |-> TRUE]>>,
              location |-> location]
        ELSE [instances |-> <<[policy |-> policy]>>, location |-> location]

apply_allocation_policy_unchecked_model(job, region, compute_config) ==
    LET cc == compute_config.fields
    IN  IF \/ (cc.accelerator_type # "" /\ cc.accelerator_count = 0)
           \/ (cc.accelerator_count # 0 /\ cc.accelerator_type = "")
        THEN Raise(job, "ValueError: GPU type and GPU count must be set together")
        ELSE Ok(SetItem(job, "allocationPolicy", allocation_policy(region, cc)))

apply_allocation_policy_merging(job, region, compute_config) ==
    LET cc == compute_config.fields
        old == IF "allocationPolicy" \in DOMAIN job THEN job.allocationPolicy ELSE EmptyDict
    IN  IF \/ (cc.accelerator_type # "" /\ cc.accelerator_count = 0)
           \/ (cc.accelerator_count # 0 /\ cc.accelerator_type = "")
        THEN Raise(job, "ValueError: GPU type and GPU count must be set together")
        ELSE IF cc.provisioning_model \notin {"SPOT", "STANDARD"}
        THEN Raise(job, "ValueError: Provisioning model must be either SPOT or STANDARD")
        ELSE Ok(SetItem(job, "allocationPolicy", allocation_policy(region, cc) @@ old))

apply_allocation_policy(job, region, compute_config) ==
    LET cc == compute_config.fields
    IN  IF \/ (cc.accelerator_type # "" /\ cc.accelerator_count = 0)
           \/ (cc.accelerator_count # 0 /\ cc.accelerator_type = "")
        THEN Raise(job, "ValueError: GPU type and GPU count must be set together")
        ELSE IF cc.provisioning_model \notin {"SPOT", "STANDARD"}
        THEN Raise(job, "ValueError: Provisioning model must be either SPOT or STANDARD")
        ELSE Ok(SetItem(job, "allocationPolicy", allocation_policy(region, cc)))

apply_cloud_log_policy(job) ==
    Ok(SetItem(job, "logsPolicy", [destination |-> "CLOUD_LOGGING"]))

\* size_gb is Optional: create_standard_job's tmp_dir_size_gb defaults to None,
\* and math.ceil(None) raises after setdefault has created the disks list.
add_attached_disk(job, device_name, size_gb) ==
    IF "allocationPolicy" \notin DOMAIN job
    THEN Raise(job, "KeyError: allocationPolicy")
    ELSE LET policy == SetDefault(job.allocationPolicy.instances[1].policy, "disks", <<>>)
             with == [job EXCEPT !.allocationPolicy.instances[1].policy = policy]
         IN  IF size_gb = None
             THEN Raise(with, "TypeError: must be real number, not NoneType")
             ELSE Ok([with EXCEPT !.allocationPolicy.instances[1].policy.disks =
                        Append(@, [deviceName |-> device_name,
                                   newDisk |-> [type |-> "pd-balanced",
                                                sizeGb |-> max(math_ceil(size_gb[1]), 1)]])])

add_job_storage_volume(job, tmp_dir, volume_name) ==
    LET ts == SetDefault(TaskSpec(job), "volumes", <<>>)
    IN  Ok(WithTaskSpec(job,
            [ts EXCEPT !.volumes = Append(@, [mountPath |-> tmp_dir,
                                              deviceName |-> volume_name])]))

SetEnvironmentVariableFresh(target, key, value) ==
    LET t == SetDefault(target, "environment", EmptyDict)
    IN  SetItem(t, "environment", SetItem(t.environment, "variables", (key :> value)))

\* The body shared by the two setters: env = target.setdefault("environment", {}),
\* env_vars = env.setdefault("variables", {}), env_vars[key] = value.
SetEnvironmentVariable(target, key, value) ==
    LET t == SetDefault(target, "environment", EmptyDict)
        env == SetDefault(t.environment, "variables", EmptyDict)
    IN  SetItem(t, "environment",
            SetItem(env, "variables", SetItem(env.variables, key, value)))

set_job_environment_variable(job, key, value) ==
    Ok(WithTaskSpec(job, SetEnvironmentVariable(TaskSpec(job), key, value)))

set_runnable_environment_variable(runnable, key, value) ==
    SetEnvironmentVariable(runnable, key, value)

add_tmp_dir_no_env(job, tmp_dir, tmp_dir_size_gb) ==
    LET volume_name == "job-workspace"
        r1 == add_attached_disk(job, volume_name, tmp_dir_size_gb)
    IN  IF r1.exc # NoExc THEN r1
        ELSE add_job_storage_volume(r1.job, tmp_dir, volume_name)

add_tmp_dir(job, tmp_dir, tmp_dir_size_gb) ==
    LET volume_name == "job-workspace"
        r1 == add_attached_disk(job, volume_name, tmp_dir_size_gb)
        r2 == add_job_storage_volume(r1.job, tmp_dir, volume_name)
    IN  IF r1.exc # NoExc THEN r1
        ELSE IF r2.exc # NoExc THEN r2
        ELSE set_job_environment_variable(r2.job, "TMPDIR", tmp_dir)

add_networking_interface(job, networking_interface) ==
    IF "allocationPolicy" \notin DOMAIN job
    THEN Raise(job, "KeyError: allocationPolicy")
    ELSE LET ap == SetDefault(job.allocationPolicy, "network", EmptyDict)
             net == SetDefault(ap.network, "networkInterfaces", <<>>)
         IN  Ok(SetItem(job, "allocationPolicy",
                 SetItem(ap, "network",
                     SetItem(net, "networkInterfaces",
                         Append(net.networkInterfaces, model_dump(networking_interface))))))

add_service_account(job, service_account) ==
    IF "allocationPolicy" \notin DOMAIN job
    THEN Raise(job, "KeyError: allocationPolicy")
    ELSE Ok(SetItem(job, "allocationPolicy",
             SetItem(job.allocationPolicy, "serviceAccount", model_dump(service_account))))

SharedDependencyList(h) == 1

\* The list object that the display [{"items": {}}] evaluates to: every
\* evaluation builds a new list, never one an earlier call built.
DefaultDependencyList(h) == Len(h) + 1

\* The dependency list of a document: "dependencies" holds a reference into the
\* heap of list objects, so that two documents holding the same list show.
Dependencies(job, h) == h[job.dependencies]

\* Returns [job, heap, exc].
add_job_dependencies(job, job_ids, h) ==
    LET ids == SelectSeq(job_ids, LAMBDA j : j # "")
        idset == {ids[i] : i \in 1..Len(ids)}
        default == DefaultDependencyList(h)
        installs == "dependencies" \notin DOMAIN job
        h1 == IF installs /\ default > Len(h)
              THEN Append(h, <<[items |-> EmptyDict]>>) ELSE h
        j1 == SetDefault(job, "dependencies", default)
        items == h1[j1.dependencies][1].items
    IN  IF Len(ids) = 0
        THEN [job |-> job, heap |-> h, exc |-> NoExc]
        ELSE [job |-> j1,
              heap |-> [h1 EXCEPT ![j1.dependencies][1].items =
                          [k \in DOMAIN items \cup idset |->
                              IF k \in idset THEN "SUCCEEDED" ELSE items[k]]],
              exc |-> NoExc]

(***************************************************************************)
(* create_standard_job, statement by statement.                            *)
(***************************************************************************)
SeqsUpTo(S, n) == UNION {[1..k -> S] : k \in 0..n}

Regions == {"us-central1", "europe-west4"}

ComputeConfigs ==
    {ComputeConfig("n1-standard-8", "SPOT", "", 0),
     ComputeConfig("n1-standard-8", "STANDARD", "nvidia-tesla-t4", 1),
     ComputeConfig("n1-standard-8", "SPOT", "nvidia-tesla-t4", 0),
     ComputeConfig("n1-standard-8", "SPOT", "", 2),
     ComputeConfig("n1-standard-8", "PREEMPTIBLE", "", 0)}

RunnableValues ==
    {ContainerRunnable("image-a", "run", <<"--fast">>),
     ContainerRunnable("image-b", "run", <<>>),
     Runnable}

\* (tmp_dir, tmp_dir_size_gb)
TmpDirs ==
    {<<None, None>>,
     <<Some(""), Some(Rat(2, 5))>>,
     <<Some("/scratch"), None>>,
     <<Some("/scratch"), Some(Rat(2, 5))>>,
     <<Some("/scratch"), Some(Rat(15432, 125))>>}

NetworkInterfaces == {None, Some(NetworkInterfaceConfig("net", "subnet", TRUE))}

ServiceAccounts == {None, Some(ServiceAccountConfig("sa@project", <<"cloud-platform">>))}

DependsOn == {None, Some(<<>>), Some(<<"">>), Some(<<"job-1", "", "job-2">>)}

\* for runnable in runnables: add_runnable(job, runnable), from the i-th on.
RECURSIVE add_runnables(_, _, _)
add_runnables(job, runnables, i) ==
    IF i > Len(runnables) THEN Ok(job)
    ELSE LET r == add_runnable(job, runnables[i])
         IN  IF r.exc # NoExc THEN r ELSE add_runnables(r.job, runnables, i + 1)

\* How many add_runnable calls the loop makes: one per runnable up to and
\* including the first that raises.
RECURSIVE runnable_calls(_, _)
runnable_calls(runnables, i) ==
    IF i > Len(runnables) THEN 0
    ELSE IF runnables[i].cls # "ContainerRunnable" THEN 1
    ELSE 1 + runnable_calls(runnables, i + 1)

Repeat(x, n) == [i \in 1..n |-> x]

CsjStep(r, name, next) ==
    /\ csj_job' = Some(r.job)
    /\ csj_calls' = Append(csj_calls, name)
    /\ csj_exc' = r.exc
    /\ csj_pc' = IF r.exc # NoExc THEN "raised" ELSE next

CsjSkip(next) ==
    /\ csj_pc' = next
    /\ UNCHANGED <<csj_job, csj_calls, csj_exc>>

\* The call, and line 145: job = create_job_base(...).
CsjCall ==
    /\ csj_pc = "idle"
    /\ \E region \in Regions, compute_config \in ComputeConfigs,
          task_count \in 1..MaxTaskCount,
          runnables \in SeqsUpTo(RunnableValues, MaxRunnables),
          tmp \in TmpDirs, network_interface \in NetworkInterfaces,
          service_account \in ServiceAccounts, depends_on_job_ids \in DependsOn :
        /\ csj_args' = Some([region |-> region, compute_config |-> compute_config,
                             task_count |-> task_count, runnables |-> runnables,
                             parallelism |-> 1, task_count_per_node |-> 1,
                             tmp_dir |-> tmp[1], tmp_dir_size_gb |-> tmp[2],
                             network_interface |-> network_interface,
                             service_account |-> service_account,
                             depends_on_job_ids |-> depends_on_job_ids])
        /\ csj_job' = Some(create_job_base(task_count, 1, 1))
    /\ csj_calls' = <<"create_job_base">>
    /\ csj_exc' = NoExc
    /\ csj_pc' = "runnables"
    /\ heap' = <<>>
    /\ UNCHANGED <<bVars, dVars, fs, pVars, gVars, sVars, cVars, eVars>>

\* Lines 148-149.
CsjAddRunnables ==
    /\ csj_pc = "runnables"
    /\ LET a == csj_args[1]
           r == add_runnables(csj_job[1], a.runnables, 1)
       IN  /\ csj_job' = Some(r.job)
           /\ csj_calls' = csj_calls \o Repeat("add_runnable", runnable_calls(a.runnables, 1))
           /\ csj_exc' = r.exc
           /\ csj_pc' = IF r.exc # NoExc THEN "raised" ELSE "allocation"
    /\ UNCHANGED <<csj_args, heap, bVars, dVars, fs, pVars, gVars, sVars, cVars, eVars>>

\* Line 151.
CsjApplyAllocationPolicy ==
    /\ csj_pc = "allocation"
    /\ CsjStep(apply_allocation_policy(csj_job[1], csj_args[1].region,
                                       csj_args[1].compute_config),
               "apply_allocation_policy", "logging")
    /\ UNCHANGED <<csj_args, heap, bVars, dVars, fs, pVars, gVars, sVars, cVars, eVars>>

\* Line 152.
CsjApplyCloudLogPolicy ==
    /\ csj_pc = "logging"
    /\ CsjStep(apply_cloud_log_policy(csj_job[1]), "apply_cloud_log_policy", "tmp_dir")
    /\ UNCHANGED <<csj_args, heap, bVars, dVars, fs, pVars, gVars, sVars, cVars, eVars>>

\* Lines 154-155.
CsjAddTmpDir ==
    /\ csj_pc = "tmp_dir"
    /\ IF TruthyStr(csj_args[1].tmp_dir)
       THEN CsjStep(add_tmp_dir(csj_job[1], csj_args[1].tmp_dir[1],
                                csj_args[1].tmp_dir_size_gb),
                    "add_tmp_dir", "network")
       ELSE CsjSkip("network")
    /\ UNCHANGED <<csj_args, heap, bVars, dVars, fs, pVars, gVars, sVars, cVars, eVars>>

\* Lines 157-158.
CsjAddNetworkingInterface ==
    /\ csj_pc = "network"
    /\ IF TruthyModel(csj_args[1].network_interface)
       THEN CsjStep(add_networking_interface(csj_job[1], csj_args[1].network_interface[1]),
                    "add_networking_interface", "service_account")
       ELSE CsjSkip("service_account")
    /\ UNCHANGED <<csj_args, heap, bVars, dVars, fs, pVars, gVars, sVars, cVars, eVars>>

\* Lines 160-161.
CsjAddServiceAccount ==
    /\ csj_pc = "service_account"
    /\ IF TruthyModel(csj_args[1].service_account)
       THEN CsjStep(add_service_account(csj_job[1], csj_args[1].service_account[1]),
                    "add_service_account", "dependencies")
       ELSE CsjSkip("dependencies")
    /\ UNCHANGED <<csj_args, heap, bVars, dVars, fs, pVars, gVars, sVars, cVars, eVars>>

\* Lines 163-166: the last optional step, then return job.
CsjAddJobDependencies ==
    /\ csj_pc = "dependencies"
    /\ IF TruthyList(csj_args[1].depends_on_job_ids)
       THEN LET r == add_job_dependencies(csj_job[1],
                                          csj_args[1].depends_on_job_ids[1], heap)
            IN  /\ CsjStep(r, "add_job_dependencies", "returned")
                /\ heap' = r.heap
       ELSE CsjSkip("returned") /\ UNCHANGED heap
    /\ UNCHANGED <<csj_args, bVars, dVars, fs, pVars, gVars, sVars, cVars, eVars>>

\* The caller has the document (or the exception); the call's frame is gone.
CsjDone ==
    /\ csj_pc \in {"returned", "raised"}
    /\ csj_pc' = "idle"
    /\ csj_args' = None
    /\ csj_job' = None
    /\ csj_calls' = <<>>
    /\ csj_exc' = NoExc
    /\ heap' = <<>>
    /\ UNCHANGED <<bVars, dVars, fs, pVars, gVars, sVars, cVars, eVars>>

CsjNext ==
    \/ CsjCall
    \/ CsjDone
    \/ CsjAddRunnables
    \/ CsjApplyAllocationPolicy
    \/ CsjApplyCloudLogPolicy
    \/ CsjAddTmpDir
    \/ CsjAddNetworkingInterface
    \/ CsjAddServiceAccount
    \/ CsjAddJobDependencies

(***************************************************************************)
(* A caller building one document with the builder steps, in any order.    *)
(***************************************************************************)
\* size_gb arguments: -1.5, 0, 0.4, 1, 2.5, 123.456
Sizes == {Rat(-3, 2), Rat(0, 1), Rat(2, 5), Rat(1, 1), Rat(5, 2), Rat(15432, 125)}

Disks(job) ==
    IF "allocationPolicy" \in DOMAIN job
       /\ "disks" \in DOMAIN job.allocationPolicy.instances[1].policy
    THEN job.allocationPolicy.instances[1].policy.disks ELSE <<>>

Interfaces(job) ==
    IF "allocationPolicy" \in DOMAIN job /\ "network" \in DOMAIN job.allocationPolicy
    THEN job.allocationPolicy.network.networkInterfaces ELSE <<>>

Volumes(job) ==
    IF "volumes" \in DOMAIN TaskSpec(job) THEN TaskSpec(job).volumes ELSE <<>>

BStep(r, call) ==
    /\ b_job' = r.job
    /\ b_last' = call @@ [exc |-> r.exc]
    /\ UNCHANGED <<csjVars, heap, dVars, fs, pVars, gVars, sVars, cVars, eVars>>

BApplyAllocationPolicy ==
    \E region \in Regions, compute_config \in ComputeConfigs :
        BStep(apply_allocation_policy(b_job, region, compute_config),
              [name |-> "apply_allocation_policy", region |-> region,
               compute_config |-> compute_config])

BApplyCloudLogPolicy ==
    BStep(apply_cloud_log_policy(b_job), [name |-> "apply_cloud_log_policy"])

BAddAttachedDisk ==
    /\ Len(Disks(b_job)) < MaxDisks
    /\ \E size_gb \in Sizes :
        BStep(add_attached_disk(b_job, "disk-1", Some(size_gb)),
              [name |-> "add_attached_disk", device_name |-> "disk-1",
               size_gb |-> size_gb])

BAddTmpDir ==
    /\ Len(Disks(b_job)) < MaxDisks
    /\ Len(Volumes(b_job)) < MaxVolumes
    /\ \E tmp \in {t \in TmpDirs : t[1] # None} :
        BStep(add_tmp_dir(b_job, tmp[1][1], tmp[2]),
              [name |-> "add_tmp_dir", tmp_dir |-> tmp[1][1], tmp_dir_size_gb |-> tmp[2]])

BAddNetworkingInterface ==
    /\ Len(Interfaces(b_job)) < MaxNetworkInterfaces
    /\ \E ni \in NetworkInterfaces \ {None} :
        BStep(add_networking_interface(b_job, ni[1]),
              [name |-> "add_networking_interface", networking_interface |-> ni[1]])

BAddServiceAccount ==
    \E sa \in ServiceAccounts \ {None} :
        BStep(add_service_account(b_job, sa[1]),
              [name |-> "add_service_account", service_account |-> sa[1]])

BNext ==
    \/ BApplyAllocationPolicy
    \/ BApplyCloudLogPolicy
    \/ BAddAttachedDisk
    \/ BAddTmpDir
    \/ BAddNetworkingInterface
    \/ BAddServiceAccount

\* The caller also makes the document depend on another job.
BAddJobDependencies ==
    /\ LET job_ids == <<"job-1">>
           r == add_job_dependencies(b_job, job_ids, heap)
       IN  /\ b_job' = r.job
           /\ heap' = r.heap
           /\ b_last' = [name |-> "add_job_dependencies", job_ids |-> job_ids,
                         exc |-> r.exc]
    /\ UNCHANGED <<csjVars, dVars, fs, pVars, gVars, sVars, cVars, eVars>>

BuildNext ==
    \/ BNext
    \/ BAddJobDependencies

(***************************************************************************)
(* Callers adding dependencies to several documents.                       *)
(***************************************************************************)
JobIds == {"", "job-1", "job-2", "job-3"}

DAddJobDependencies ==
    \E d \in 1..NumDocs, job_ids \in SeqsUpTo(JobIds, MaxJobIds) :
        LET r == add_job_dependencies(d_docs[d], job_ids, heap)
        IN  /\ d_docs' = [d_docs EXCEPT ![d] = r.job]
            /\ heap' = r.heap
            /\ d_passed' = [d_passed EXCEPT
                              ![d] = @ \cup ({job_ids[i] : i \in 1..Len(job_ids)} \ {""})]
            /\ UNCHANGED <<csjVars, bVars, fs, pVars, gVars, sVars, cVars, eVars>>

DNext == DAddJobDependencies

(***************************************************************************)
(* jobs.py: prepare_multitask_job and write_tasks.                         *)
(***************************************************************************)
\* A task payload is a raw dict, [cls |-> "dict", fields |-> the dict], or a
\* pydantic object, [cls |-> its class, fields |-> its fields].
Dict(d) == [cls |-> "dict", fields |-> d]
TaskArgs(arg1, arg2) == [cls |-> "TaskArgs", fields |-> [arg1 |-> arg1, arg2 |-> arg2]]

\* hasattr(task, "model_dump")
has_model_dump(task) == task.cls # "dict"

\* json.dumps of a list of mappings: the text of a JSON array, its elements in
\* the order of the list.
json_dumps(array) == [format |-> "json", array |-> array]

\* f"{working_directory}/tasks.json"
TasksPath(working_directory) == working_directory \o "/tasks.json"

RunnableTasksPathUnindexed(working_directory, i) ==
    working_directory \o "/runnable_tasks.json"

\* f"{working_directory}/runnable_{i}_tasks.json", i counted from 0.
RunnableTasksPath(working_directory, i) ==
    working_directory \o "/runnable_" \o ToString(i) \o "_tasks.json"

write_tasks_undumped(tasks, tasks_path, io) ==
    [fs |-> SetItem(io.fs, tasks_path, json_dumps(tasks)),
     writes |-> Append(io.writes, tasks_path)]

write_tasks_reversed(tasks, tasks_path, io) ==
    [fs |-> SetItem(io.fs, tasks_path,
                json_dumps([i \in 1..Len(tasks) |-> tasks[Len(tasks) + 1 - i].fields])),
     writes |-> Append(io.writes, tasks_path)]

\* io is [fs, writes]: the files, and the paths opened for writing so far.
write_tasks(tasks, tasks_path, io) ==
    [fs |-> SetItem(io.fs, tasks_path,
                json_dumps([i \in 1..Len(tasks) |->
                    IF has_model_dump(tasks[i]) THEN model_dump(tasks[i])
                    ELSE tasks[i].fields])),
     writes |-> Append(io.writes, tasks_path)]

RECURSIVE prepare_runnable_tasks_unchecked(_, _, _, _, _, _)
prepare_runnable_tasks_unchecked(runnables, runnable_tasks, i, num_tasks, working_directory, io) ==
    IF i > Len(runnables)
    THEN [runnables |-> runnables, io |-> io, exc |-> NoExc]
    ELSE LET runnable_tasks_path == RunnableTasksPath(working_directory, i - 1)
         IN  prepare_runnable_tasks_unchecked(
                 [runnables EXCEPT ![i] = set_runnable_environment_variable(
                                              @, "GBATCHKIT_ARGS_PATH", runnable_tasks_path)],
                 runnable_tasks, i + 1, num_tasks, working_directory,
                 write_tasks(runnable_tasks[i], runnable_tasks_path, io))

\* Lines 96-105, from the i-th runnable (counted from 1) on: the loop stops at
\* the first list of the wrong length, with what it did before.
RECURSIVE prepare_runnable_tasks(_, _, _, _, _, _)
prepare_runnable_tasks(runnables, runnable_tasks, i, num_tasks, working_directory, io) ==
    IF i > Len(runnables)
    THEN [runnables |-> runnables, io |-> io, exc |-> NoExc]
    ELSE IF Len(runnable_tasks[i]) # num_tasks
    THEN [runnables |-> runnables, io |-> io,
          exc |-> "ValueError: Need {num_tasks} tasks for runnable {i}"]
    ELSE LET runnable_tasks_path == RunnableTasksPath(working_directory, i - 1)
         IN  prepare_runnable_tasks(
                 [runnables EXCEPT ![i] = set_runnable_environment_variable(
                                              @, "GBATCHKIT_ARGS_PATH", runnable_tasks_path)],
                 runnable_tasks, i + 1, num_tasks, working_directory,
                 write_tasks(runnable_tasks[i], runnable_tasks_path, io))

\* Returns [job, io, exc].
prepare_multitask_job(job, working_directory, tasks, runnable_tasks, io) ==
    LET ts == SetDefault(TaskSpec(job), "runnables", <<>>)
        job1 == WithTaskSpec(job, ts)
        runnables == ts.runnables
        num_runnables == Len(runnables)
        num_tasks == job.taskGroups[1].taskCount
        Fail(j, e) == [job |-> j, io |-> io, exc |-> e]
    IN  IF TruthyList(tasks) /\ TruthyList(runnable_tasks)
        THEN Fail(job, "ValueError: Specify tasks or runnable_tasks, not both")
        ELSE IF Len(runnables) = 0
        THEN Fail(job1, "ValueError: No runnables found in the job definition")
        ELSE IF TruthyList(runnable_tasks)
        THEN IF Len(runnable_tasks[1]) # num_runnables
             THEN Fail(job1, "ValueError: Need tasks for each of {num_runnables} runnables")
             ELSE LET r == prepare_runnable_tasks(runnables, runnable_tasks[1], 1,
                                                  num_tasks, working_directory, io)
                  IN  [job |-> WithTaskSpec(job1, [ts EXCEPT !.runnables = r.runnables]),
                       io |-> r.io, exc |-> r.exc]
        ELSE IF TruthyList(tasks)
        THEN IF Len(tasks[1]) # num_tasks
             THEN Fail(job1, "ValueError: Need {num_tasks} tasks")
             ELSE LET runnable_tasks_path == TasksPath(working_directory)
                  IN  [job |-> set_job_environment_variable(
                                   job1, "GBATCHKIT_ARGS_PATH", runnable_tasks_path).job,
                       io |-> write_tasks(tasks[1], runnable_tasks_path, io),
                       exc |-> NoExc]
        ELSE Fail(job1, "ValueError: Need to specify either tasks or runnable_tasks")

(***************************************************************************)
(* A caller preparing documents for multi-task runs.                       *)
(***************************************************************************)
WorkingDirectories == {"/test-dir", "gs://bucket/work"}

TaskPayloads == {Dict([task_id |-> 1, param |-> "value1"]), TaskArgs(100, "value1")}

TaskLists == SeqsUpTo(TaskPayloads, MaxTaskCount)

Optional(S) == {None} \cup {Some(v) : v \in S}

\* (tasks, runnable_tasks): either alone in every shape, and both together
\* with at most one per-runnable list.
PrepareInputs ==
    {in \in Optional(TaskLists) \X Optional(SeqsUpTo(TaskLists, MaxRunnables)) :
        in[1] = None \/ in[2] = None \/ Len(in[2][1]) <= 1}

\* A document as the builder leaves it, with n container runnables; without
\* its "runnables" key when keep_key is false.
PrepareJob(n, task_count, keep_key) ==
    LET job == add_runnables(create_job_base(task_count, 1, 1),
                   [i \in 1..n |-> ContainerRunnable("image-a", "run", <<ToString(i)>>)],
                   1).job
    IN  IF keep_key THEN job
        ELSE WithTaskSpec(job, [k \in DOMAIN TaskSpec(job) \ {"runnables"} |->
                                    TaskSpec(job)[k]])

PNewJob ==
    /\ \E n \in 0..MaxRunnables, task_count \in 0..MaxTaskCount, keep_key \in BOOLEAN :
        /\ keep_key \/ n = 0
        /\ p_job' = PrepareJob(n, task_count, keep_key)
    /\ p_last' = [name |-> "create_job_base"]
    /\ fs' = EmptyDict
    /\ UNCHANGED <<csjVars, heap, bVars, dVars, gVars, sVars, cVars, eVars>>

PPrepareMultitaskJob ==
    /\ p_last.name = "create_job_base"
    /\ \E working_directory \in WorkingDirectories, in \in PrepareInputs :
        LET r == prepare_multitask_job(p_job, working_directory, in[1], in[2],
                                       [fs |-> fs, writes |-> <<>>])
        IN  /\ p_job' = r.job
            /\ fs' = r.io.fs
            /\ p_last' = [name |-> "prepare_multitask_job",
                          working_directory |-> working_directory,
                          tasks |-> in[1], runnable_tasks |-> in[2],
                          exc |-> r.exc, writes |-> r.io.writes]
    /\ UNCHANGED <<csjVars, heap, bVars, dVars, gVars, sVars, cVars, eVars>>

PNext ==
    \/ PNewJob
    \/ PPrepareMultitaskJob

(***************************************************************************)
(* inputs.py: get_task_arguments.                                          *)
(***************************************************************************)
\* The schema of the tests (tests/gbatchkit/inputs_test.py, TaskArgs): its
\* model_fields, in declaration order.
TaskArgsCls ==
    [name |-> "TaskArgs",
     model_fields |-> <<[key |-> "arg1", annotation |-> "int", required |-> TRUE],
                        [key |-> "arg2", annotation |-> "str", required |-> TRUE]>>]

\* int(text), for the texts the model uses: None where int() raises ValueError.
int_of(text) ==
    CASE text = "-1" -> Some(-1)
      [] text = "0" -> Some(0)
      [] text = "1" -> Some(1)
      [] text = "2" -> Some(2)
      [] text = "3" -> Some(3)
      [] text = "100" -> Some(100)
      [] text = "200" -> Some(200)
      [] text = "300" -> Some(300)
      [] OTHER -> None

FieldOfFlag(cls, token) ==
    {k \in 1..Len(cls.model_fields) : "--" \o cls.model_fields[k].key = token}

\* parser.parse_args(args) with one `--key value` flag per field, from the
\* i-th token on; acc holds the values parsed so far.  argparse exits the
\* process (SystemExit) on an unknown flag, a flag without value, a value its
\* type rejects and a required flag left out.
RECURSIVE parse_args(_, _, _, _)
parse_args(cls, args, i, acc) ==
    IF i > Len(args)
    THEN IF \A k \in 1..Len(cls.model_fields) :
               cls.model_fields[k].required => cls.model_fields[k].key \in DOMAIN acc
         THEN [value |-> acc, exc |-> NoExc]
         ELSE [value |-> acc, exc |-> "SystemExit: the following arguments are required"]
    ELSE IF FieldOfFlag(cls, args[i]) = {}
    THEN [value |-> acc, exc |-> "SystemExit: unrecognized arguments"]
    ELSE IF i = Len(args)
    THEN [value |-> acc, exc |-> "SystemExit: expected one argument"]
    ELSE LET field == cls.model_fields[CHOOSE k \in FieldOfFlag(cls, args[i]) : TRUE]
         IN  IF field.annotation = "int"
             THEN IF int_of(args[i + 1]) = None
                  THEN [value |-> acc, exc |-> "SystemExit: invalid int value"]
                  ELSE parse_args(cls, args, i + 2,
                                  SetItem(acc, field.key, int_of(args[i + 1])[1]))
             ELSE parse_args(cls, args, i + 2, SetItem(acc, field.key, args[i + 1]))

\* Returns [value, exc]: the dict of the flags that were given.
parse_cmdline_args(task_args_cls, task_name, args) ==
    parse_args(task_args_cls, args, 1, EmptyDict)

\* json.load of a file's content.
json_load(content) == content.array

get_batch_indexed_task_first(tasks_spec_uri, files, env) ==
    LET Fail(e) == [value |-> EmptyDict, exc |-> e, opened |-> <<tasks_spec_uri>>]
        tasks_spec == json_load(files[tasks_spec_uri])
    IN  IF tasks_spec_uri \notin DOMAIN files THEN Fail("FileNotFoundError")
        ELSE IF "BATCH_TASK_INDEX" \notin DOMAIN env THEN Fail("KeyError: BATCH_TASK_INDEX")
        ELSE IF Len(tasks_spec) = 0 THEN Fail("IndexError: list index out of range")
        ELSE [value |-> tasks_spec[1], exc |-> NoExc, opened |-> <<tasks_spec_uri>>]

\* Returns [value, exc, opened]; opened lists the files opened for reading.
get_batch_indexed_task(tasks_spec_uri, files, env) ==
    LET Fail(e) == [value |-> EmptyDict, exc |-> e, opened |-> <<tasks_spec_uri>>]
        tasks_spec == json_load(files[tasks_spec_uri])
        task_index == int_of(env["BATCH_TASK_INDEX"])
        n == Len(tasks_spec)
    IN  IF tasks_spec_uri \notin DOMAIN files THEN Fail("FileNotFoundError")
        ELSE IF "BATCH_TASK_INDEX" \notin DOMAIN env THEN Fail("KeyError: BATCH_TASK_INDEX")
        ELSE IF task_index = None THEN Fail("ValueError: invalid literal for int()")
        ELSE IF task_index[1] >= n \/ task_index[1] < -n
        THEN Fail("IndexError: list index out of range")
        ELSE [value |-> tasks_spec[IF task_index[1] >= 0 THEN task_index[1] + 1
                                   ELSE n + task_index[1] + 1],
              exc |-> NoExc, opened |-> <<tasks_spec_uri>>]

\* task_args_cls(**task_args): the typed object, its fields taken from the
\* mapping by name (other keys are ignored); a required field that is missing
\* is a ValidationError.  Values have the type their field declares wherever
\* the model builds them, so no value is rejected for its type.
Instantiate(cls, task_args) ==
    LET keys == {cls.model_fields[k].key : k \in 1..Len(cls.model_fields)}
    IN  IF \A k \in 1..Len(cls.model_fields) :
              cls.model_fields[k].required => cls.model_fields[k].key \in DOMAIN task_args
        THEN [value |-> [cls |-> cls.name,
                         fields |-> [f \in keys \cap DOMAIN task_args |-> task_args[f]]],
              exc |-> NoExc]
        ELSE [value |-> Dict(task_args), exc |-> "ValidationError"]

CommandLineTokensAlwaysArgv(args, sys_argv) == sys_argv

\* Line 49: args = sys.argv[1:] if args is None else args
CommandLineTokens(args, sys_argv) == IF args = None THEN sys_argv ELSE args[1]

\* task_args_cls and args are Optional.  Returns [value, exc, opened, parsed]:
\* the files opened for reading and the token list handed to the parser
\* (None when the parser was not called).
get_task_arguments(task_args_cls, args, env, files, sys_argv) ==
    LET args_path == IF "GBATCHKIT_ARGS_PATH" \in DOMAIN env
                     THEN Some(env["GBATCHKIT_ARGS_PATH"]) ELSE None
        Finish(r, opened, parsed) ==
            IF r.exc # NoExc
            THEN [value |-> None, exc |-> r.exc, opened |-> opened, parsed |-> parsed]
            ELSE IF task_args_cls # None
            THEN LET t == Instantiate(task_args_cls[1], r.value)
                 IN  [value |-> IF t.exc = NoExc THEN Some(t.value) ELSE None,
                      exc |-> t.exc, opened |-> opened, parsed |-> parsed]
            ELSE [value |-> Some(Dict(r.value)), exc |-> NoExc,
                  opened |-> opened, parsed |-> parsed]
    IN  IF TruthyList(args) /\ task_args_cls # None
        THEN Finish(parse_cmdline_args(task_args_cls[1], None, args[1]),
                    <<>>, Some(args[1]))
        ELSE IF TruthyStr(args_path)
        THEN LET r == get_batch_indexed_task(args_path[1], files, env)
             IN  Finish(r, r.opened, None)
        ELSE IF task_args_cls # None
        THEN LET tokens == CommandLineTokens(args, sys_argv)
             IN  Finish(parse_cmdline_args(task_args_cls[1], None, tokens),
                        <<>>, Some(tokens))
        ELSE [value |-> None,
              exc |-> "ValueError: Need GBATCHKIT_ARGS_PATH env, or task_args_cls to read from args",
              opened |-> <<>>, parsed |-> None]

(***************************************************************************)
(* A task process resolving its arguments.                                 *)
(***************************************************************************)
ArgsPaths == {"", TasksPath("/test-dir"), "/test-dir/missing.json"}

TaskIndexes == {"0", "1", "-1", "3", "first"}

ProcessArguments == {<<>>, <<"--arg1", "300", "--arg2", "value3">>}

ExplicitArguments ==
    {None, Some(<<>>), Some(<<"--arg1", "200", "--arg2", "value2">>),
     Some(<<"--arg1", "many">>)}

ResolvedPayloads == {Dict([task_id |-> 1, param |-> "value1"]),
                     TaskArgs(100, "value1"), TaskArgs(200, "value2")}

\* The preparer has written a task list to the shared file.
GWriteTasks ==
    /\ \E tasks \in SeqsUpTo(ResolvedPayloads, MaxTaskCount) :
        fs' = write_tasks(tasks, TasksPath("/test-dir"), [fs |-> fs, writes |-> <<>>]).fs
    /\ UNCHANGED <<csjVars, heap, bVars, dVars, pVars, gVars, sVars, cVars, eVars>>

\* The process is started with other arguments and another environment.
GStart ==
    /\ argv' \in ProcessArguments
    /\ \E path \in Optional(ArgsPaths), index \in Optional(TaskIndexes) :
        environ' = [k \in (IF path = None THEN {} ELSE {"GBATCHKIT_ARGS_PATH"})
                          \cup (IF index = None THEN {} ELSE {"BATCH_TASK_INDEX"}) |->
                       IF k = "GBATCHKIT_ARGS_PATH" THEN path[1] ELSE index[1]]
    /\ g_last' = [name |-> "start"]
    /\ UNCHANGED <<csjVars, heap, bVars, dVars, fs, pVars, sVars, cVars, eVars>>

GGetTaskArguments ==
    /\ \E task_args_cls \in Optional({TaskArgsCls}), args \in ExplicitArguments :
        LET r == get_task_arguments(task_args_cls, args, environ, fs, argv)
        IN  g_last' = [name |-> "get_task_arguments",
                       task_args_cls |-> task_args_cls, args |-> args,
                       value |-> r.value, exc |-> r.exc,
                       opened |-> r.opened, parsed |-> r.parsed]
    /\ UNCHANGED <<csjVars, heap, bVars, dVars, fs, pVars, environ, argv, sVars, cVars, eVars>>

GNext ==
    \/ GWriteTasks
    \/ GStart
    \/ GGetTaskArguments

(***************************************************************************)
(* A task of a prepared job: the batch service starts the process of one   *)
(* runnable for one task index, with the environment variables of the task *)
(* group and of the runnable, and the process resolves its arguments.      *)
(***************************************************************************)
\* The variables a dict of the document declares ({} when it declares none).
DeclaredVariables(d) ==
    IF "environment" \in DOMAIN d /\ "variables" \in DOMAIN d.environment
    THEN d.environment.variables ELSE EmptyDict

\* The environment of the process of the k-th runnable (counted from 1) for
\* task index i: the runnable's variables over the task group's, and
\* BATCH_TASK_INDEX.
TaskEnvironment(job, k, i) ==
    ("BATCH_TASK_INDEX" :> ToString(i))
        @@ DeclaredVariables(TaskSpec(job).runnables[k])
        @@ DeclaredVariables(TaskSpec(job))

RStartTask ==
    /\ p_last.name = "prepare_multitask_job"
    /\ p_last.exc = NoExc
    /\ \E k \in 1..Len(TaskSpec(p_job).runnables),
          i \in 0..(p_job.taskGroups[1].taskCount - 1) :
        environ' = TaskEnvironment(p_job, k, i)
    /\ argv' = <<>>
    /\ g_last' = [name |-> "start"]
    /\ UNCHANGED <<csjVars, heap, bVars, dVars, fs, pVars, sVars, cVars, eVars>>

\* A new document is built; no task of it runs yet.
RNewJob ==
    /\ \E n \in 0..MaxRunnables, task_count \in 0..MaxTaskCount :
        p_job' = PrepareJob(n, task_count, TRUE)
    /\ p_last' = [name |-> "create_job_base"]
    /\ fs' = EmptyDict
    /\ environ' = EmptyDict
    /\ argv' = <<>>
    /\ g_last' = [name |-> "start"]
    /\ UNCHANGED <<csjVars, heap, bVars, dVars, sVars, cVars, eVars>>

\* The started process calls get_task_arguments, once.
RGetTaskArguments ==
    /\ g_last.name = "start"
    /\ "BATCH_TASK_INDEX" \in DOMAIN environ
    /\ GGetTaskArguments

RNext ==
    \/ RNewJob
    \/ PPrepareMultitaskJob
    \/ RStartTask
    \/ RGetTaskArguments

(***************************************************************************)
(* jobs.py: submit_job, statement by statement.                            *)
(***************************************************************************)
submit_job_validate_below_64(job, job_id, region) ==
    IF DOMAIN job = {} THEN "ValueError: Job definition is empty"
    ELSE IF job_id = "" \/ Len(job_id) >= 64 THEN "ValueError: Job ID must be 1-64 characters"
    ELSE IF region = "" THEN "ValueError: Region is required"
    ELSE NoExc

\* Lines 24-29: the exception the checks raise, NoExc when they all pass.
submit_job_validate(job, job_id, region) ==
    IF DOMAIN job = {} THEN "ValueError: Job definition is empty"
    ELSE IF job_id = "" \/ Len(job_id) > 64 THEN "ValueError: Job ID must be 1-64 characters"
    ELSE IF region = "" THEN "ValueError: Region is required"
    ELSE NoExc

submit_cmd_region_first(job_id, region, file_name) ==
    <<"gcloud", "batch", "jobs", "submit", region, "--location", job_id,
      "--config", file_name>>

\* Lines 37-47: the command line handed to subprocess.run.
submit_cmd(job_id, region, file_name) ==
    <<"gcloud", "batch", "jobs", "submit", job_id, "--location", region,
      "--config", file_name>>

\* Lines 50-51: the exception raised for a result of the tool.
submit_result(returncode, stderr) ==
    IF returncode # 0 THEN "RuntimeError: Failed to submit job: " \o stderr ELSE NoExc

\* Job ids of 64 and of 65 characters.
JobId64 == "job-456789012345678901234567890123456789012345678901234567890123"
JobId65 == "job-4567890123456789012345678901234567890123456789012345678901234"

SubmitJobs == {EmptyDict, create_job_base(1, 1, 1), PrepareJob(1, 2, TRUE)}
SubmitJobIds == {"", "test-job-id", JobId64, JobId65}
SubmitRegions == {"", "us-central1", "europe-west4"}

\* The names tempfile.NamedTemporaryFile may give the file.
TempFileNames == {"/tmp/tmp-a", "/tmp/tmp-b"}

\* What the external tool may answer: its exit status and its error stream.
ReturnCodes == {0, 1, 2}
ErrorStreams == {"", "quota exceeded"}

\* Lines 20-31: the checks, then the temporary file is created (empty).
SCall ==
    /\ s_pc = "idle"
    /\ \E job \in SubmitJobs, job_id \in SubmitJobIds, region \in SubmitRegions,
          file_name \in TempFileNames :
        LET exc == submit_job_validate(job, job_id, region)
        IN  /\ s_last' = [name |-> "submit_job", job |-> job, job_id |-> job_id,
                          region |-> region, exc |-> exc,
                          file_name |-> IF exc = NoExc THEN Some(file_name) ELSE None,
                          returncode |-> None, stderr |-> None]
            /\ s_pc' = IF exc = NoExc THEN "write" ELSE "raised"
            /\ s_file' = IF exc = NoExc THEN Some("") ELSE None
    /\ s_events' = <<>>
    /\ UNCHANGED <<csjVars, heap, bVars, dVars, fs, pVars, gVars, cVars, eVars>>

\* Lines 32-35: the document is serialized and written to the file.
SWrite ==
    /\ s_pc = "write"
    /\ s_file' = Some(json_dumps(s_last.job))
    /\ s_events' = Append(s_events, [op |-> "write", path |-> s_last.file_name[1],
                                     content |-> json_dumps(s_last.job)])
    /\ s_pc' = "run"
    /\ UNCHANGED <<csjVars, heap, bVars, dVars, fs, pVars, gVars, s_last, cVars, eVars>>

\* Lines 37-51: the tool is run once and waited for; leaving the with block
\* removes the temporary file, on return and on raise alike.
SRun ==
    /\ s_pc = "run"
    /\ \E returncode \in ReturnCodes, stderr \in ErrorStreams :
        LET exc == submit_result(returncode, stderr)
        IN  /\ s_last' = [s_last EXCEPT !.returncode = Some(returncode),
                                        !.stderr = Some(stderr), !.exc = exc]
            /\ s_pc' = IF exc = NoExc THEN "returned" ELSE "raised"
    /\ s_events' = Append(s_events,
                      [op |-> "run", cmd |-> submit_cmd(s_last.job_id, s_last.region,
                                                        s_last.file_name[1]),
                       file |-> s_file])
    /\ s_file' = None
    /\ UNCHANGED <<csjVars, heap, bVars, dVars, fs, pVars, gVars, cVars, eVars>>

\* The caller has the outcome; the next call starts afresh.
SDone ==
    /\ s_pc \in {"returned", "raised"}
    /\ s_pc' = "idle"
    /\ s_last' = [name |-> "start"]
    /\ s_events' = <<>>
    /\ UNCHANGED <<csjVars, heap, bVars, dVars, fs, pVars, gVars, s_file, cVars, eVars>>

SNext ==
    \/ SCall
    \/ SWrite
    \/ SRun
    \/ SDone

(***************************************************************************)
(* types.py: parse_compute_config.  A str is a sequence of one-character   *)
(* strings, so that split and int work on its characters.                  *)
(***************************************************************************)
MaxComputeParts == 4

\* str.split(sep): the pieces between the occurrences of sep, empty pieces
\* included; a string without sep is its own single piece.
RECURSIVE split(_, _)
split(s, sep) ==
    IF \A i \in 1..Len(s) : s[i] # sep
    THEN <<s>>
    ELSE LET k == CHOOSE i \in 1..Len(s) :
                      s[i] = sep /\ \A j \in 1..(i - 1) : s[j] # sep
         IN  <<SubSeq(s, 1, k - 1)>> \o split(SubSeq(s, k + 1, Len(s)), sep)

\* The characters of a str as one string value.
RECURSIVE str(_)
str(chars) == IF chars = <<>> THEN "" ELSE chars[1] \o str(Tail(chars))

Digits == {"0", "1", "2", "3", "4", "5", "6", "7", "8", "9"}

DigitValue(c) ==
    CASE c = "0" -> 0 [] c = "1" -> 1 [] c = "2" -> 2 [] c = "3" -> 3 [] c = "4" -> 4
      [] c = "5" -> 5 [] c = "6" -> 6 [] c = "7" -> 7 [] c = "8" -> 8 [] c = "9" -> 9

RECURSIVE digits_value(_, _)
digits_value(chars, acc) ==
    IF chars = <<>> THEN acc
    ELSE digits_value(Tail(chars), 10 * acc + DigitValue(chars[1]))

\* int(text): an optional sign and decimal digits; None where int() raises
\* ValueError.
int(chars) ==
    LET signed == chars # <<>> /\ chars[1] \in {"-", "+"}
        body == IF signed THEN Tail(chars) ELSE chars
    IN  IF body = <<>> \/ \E i \in 1..Len(body) : body[i] \notin Digits
        THEN None
        ELSE Some(IF signed /\ chars[1] = "-" THEN -digits_value(body, 0)
                  ELSE digits_value(body, 0))

default_accelerator_count_zero(accelerator_type) == 0

\* Lines 58-61: the count of an accelerator part that has no ':'.
default_accelerator_count(accelerator_type) ==
    IF accelerator_type # <<>> THEN 1 ELSE 0

\* Returns [value, exc]: value is Some(ComputeConfig) when the call returns.
parse_compute_config(compute_str) ==
    LET Fail(e) == [value |-> None, exc |-> e]
        plus_parts == split(compute_str, "+")
        compute_parts == IF Len(plus_parts) = 1 THEN <<plus_parts[1], <<>>>> ELSE plus_parts
        machine_parts == split(compute_parts[1], ":")
        machine_type == machine_parts[1]
        provisioning_model == IF Len(machine_parts) = 1 THEN <<"S", "P", "O", "T">>
                              ELSE machine_parts[2]
        accelerator_parts == split(compute_parts[2], ":")
        accelerator_type == accelerator_parts[1]
        \* int(accelerator_parts[1] or 0)
        given_count == IF accelerator_parts[2] = <<>> THEN Some(0)
                       ELSE int(accelerator_parts[2])
        Return(accelerator_count) ==
            [value |-> Some(ComputeConfig(
                           str(machine_type),
                           IF provisioning_model = <<>> THEN "SPOT"
                           ELSE str(provisioning_model),
                           str(accelerator_type),
                           accelerator_count)),
             exc |-> NoExc]
    IN  IF Len(plus_parts) > 2
        THEN Fail("ValueError: Invalid compute config format")
        ELSE IF compute_parts[1] = <<>>
        THEN Fail("ValueError: Machine type is required")
        ELSE IF Len(machine_parts) > 2
        THEN Fail("ValueError: Invalid machine type/provisioning model")
        ELSE IF Len(accelerator_parts) = 1
        THEN Return(default_accelerator_count(accelerator_type))
        ELSE IF Len(accelerator_parts) = 2
        THEN IF given_count = None
             THEN Fail("ValueError: invalid literal for int()")
             ELSE IF given_count[1] > 0 /\ accelerator_type = <<>>
             THEN Fail("ValueError: Accelerator count specified without accelerator type")
             ELSE Return(given_count[1])
        ELSE Fail("ValueError: Invalid accelerator type/count")

\* The pieces the arguments are put together from, and what joins them.
ComputeParts == {<<>>, <<"n">>, <<"0">>, <<"2">>, <<"-", "2">>, <<"2", "0">>}
Separators == {":", "+"}

\* parts[1] seps[1] parts[2] ... parts[k]
RECURSIVE Shorthand(_, _, _)
Shorthand(parts, seps, k) ==
    IF k = 1 THEN parts[1]
    ELSE Shorthand(parts, seps, k - 1) \o <<seps[k - 1]>> \o parts[k]

\* The arguments made of at most max_parts pieces.
ComputeStrings(max_parts) ==
    UNION {{Shorthand(parts, seps, k) :
                parts \in [1..k -> ComputeParts], seps \in [1..(k - 1) -> Separators]} :
           k \in 1..max_parts}

CParseComputeConfig ==
    /\ c_last = None
    /\ c_last' = Some(parse_compute_config(c_str))
    /\ UNCHANGED <<csjVars, heap, bVars, dVars, fs, pVars, gVars, sVars, c_str, eVars>>

CNext == CParseComputeConfig

(***************************************************************************)
(* A caller setting environment variables on one document, between the     *)
(* builder's add_tmp_dir and prepare_multitask_job.                        *)
(***************************************************************************)
EnvKeys == {"TMPDIR", "GBATCHKIT_ARGS_PATH"}
EnvValues == {"a", "b"}

\* The document the caller starts from: two container runnables and an
\* allocation policy; the first runnable carries an environment that has no
\* "variables" yet.
EnvJob ==
    LET job == apply_allocation_policy(PrepareJob(2, 1, TRUE), "us-central1",
                   ComputeConfig("n1-standard-1", "SPOT", "", 0)).job
    IN  [job EXCEPT !.taskGroups[1].taskSpec.runnables[1] =
            SetItem(@, "environment", [secretVariables |-> [TOKEN |-> "secret-1"]])]

\* Target 0 is the task group's taskSpec, target r >= 1 the r-th runnable.
EnvTargets(job) == 0..Len(TaskSpec(job).runnables)

\* The last value passed for each key of each target, as the calls were made.
Written(written, target, key, value) ==
    [t \in DOMAIN written |->
        IF t = target THEN SetItem(written[t], key, value) ELSE written[t]]

EStep(job, exc, call, written) ==
    /\ e_job' = job
    /\ e_last' = call @@ [exc |-> exc, written |-> written]

ESetJobEnvironmentVariable ==
    /\ \E key \in EnvKeys, value \in EnvValues :
        LET r == set_job_environment_variable(e_job, key, value)
        IN  EStep(r.job, r.exc,
                  [name |-> "set_job_environment_variable", target |-> 0,
                   key |-> key, value |-> value],
                  Written(e_last.written, 0, key, value))
    /\ UNCHANGED <<csjVars, heap, bVars, dVars, fs, pVars, gVars, sVars, cVars>>

\* The caller passes one of the document's runnables, which is changed in
\* place.
ESetRunnableEnvironmentVariable ==
    /\ \E i \in 1..Len(TaskSpec(e_job).runnables), key \in EnvKeys, value \in EnvValues :
        EStep([e_job EXCEPT !.taskGroups[1].taskSpec.runnables[i] =
                   set_runnable_environment_variable(@, key, value)],
              NoExc,
              [name |-> "set_runnable_environment_variable", target |-> i,
               key |-> key, value |-> value],
              Written(e_last.written, i, key, value))
    /\ UNCHANGED <<csjVars, heap, bVars, dVars, fs, pVars, gVars, sVars, cVars>>

EAddTmpDir ==
    /\ Len(Disks(e_job)) < MaxDisks
    /\ Len(Volumes(e_job)) < MaxVolumes
    /\ LET r == add_tmp_dir(e_job, "/scratch", Some(Rat(1, 1)))
       IN  EStep(r.job, r.exc,
                 [name |-> "add_tmp_dir", target |-> 0, key |-> "TMPDIR",
                  value |-> "/scratch"],
                 Written(e_last.written, 0, "TMPDIR", "/scratch"))
    /\ UNCHANGED <<csjVars, heap, bVars, dVars, fs, pVars, gVars, sVars, cVars>>

\* prepare_multitask_job with task lists of the lengths the document asks
\* for, in the shared form and in the per-runnable form.
EPrepareMultitaskJob ==
    /\ \E shared \in BOOLEAN :
        LET n == Len(TaskSpec(e_job).runnables)
            tasks == [i \in 1..e_job.taskGroups[1].taskCount |-> TaskArgs(100, "value1")]
            r == prepare_multitask_job(e_job, "/test-dir",
                     IF shared THEN Some(tasks) ELSE None,
                     IF shared THEN None ELSE Some([i \in 1..n |-> tasks]),
                     [fs |-> fs, writes |-> <<>>])
        IN  /\ EStep(r.job, r.exc,
                     [name |-> "prepare_multitask_job", target |-> 0,
                      key |-> "GBATCHKIT_ARGS_PATH",
                      value |-> IF shared THEN "shared" ELSE "per-runnable"],
                     IF shared
                     THEN Written(e_last.written, 0, "GBATCHKIT_ARGS_PATH",
                                  "/test-dir/tasks.json")
                     ELSE [t \in DOMAIN e_last.written |->
                              IF t = 0 THEN e_last.written[t]
                              ELSE SetItem(e_last.written[t], "GBATCHKIT_ARGS_PATH",
                                       "/test-dir/runnable_" \o ToString(t - 1)
                                           \o "_tasks.json")])
            /\ fs' = r.io.fs
    /\ UNCHANGED <<csjVars, heap, bVars, dVars, pVars, gVars, sVars, cVars>>

ENext ==
    \/ ESetJobEnvironmentVariable
    \/ ESetRunnableEnvironmentVariable
    \/ EAddTmpDir
    \/ EPrepareMultitaskJob

InitOthers ==
    /\ csj_pc = "idle"
    /\ csj_args = None
    /\ csj_job = None
    /\ csj_calls = <<>>
    /\ csj_exc = NoExc
    /\ heap = <<>>
    /\ b_job = create_job_base(1, 1, 1)
    /\ b_last = [name |-> "create_job_base", exc |-> NoExc]
    /\ d_docs = [d \in 1..NumDocs |-> EmptyDict]
    /\ d_passed = [d \in 1..NumDocs |-> {}]
    /\ fs = EmptyDict
    /\ p_job = create_job_base(1, 1, 1)
    /\ p_last = [name |-> "create_job_base"]
    /\ environ = EmptyDict
    /\ argv = <<>>
    /\ g_last = [name |-> "start"]
    /\ s_pc = "idle"
    /\ s_last = [name |-> "start"]
    /\ s_file = None
    /\ s_events = <<>>
    /\ c_last = None

\* No document is handed to the environment variable setters.
NoEnvJob ==
    /\ e_job = EmptyDict
    /\ e_last = [name |-> "start"]

Init == InitOthers /\ c_str = <<>> /\ NoEnvJob

InitParse == InitOthers /\ c_str \in ComputeStrings(MaxComputeParts) /\ NoEnvJob

\* The caller holds the document it is going to set variables on.
InitEnv ==
    /\ InitOthers
    /\ c_str = <<>>
    /\ e_job = EnvJob
    /\ e_last = [name |-> "create_job_base", exc |-> NoExc,
                 written |-> [t \in EnvTargets(EnvJob) |-> EmptyDict]]

Spec == Init /\ [][BNext]_vars

SpecCreate == Init /\ [][CsjNext]_vars

SpecDeps == Init /\ [][DNext]_vars

SpecPrepare == Init /\ [][PNext]_vars

SpecArgs == Init /\ [][GNext]_vars

SpecSubmit == Init /\ [][SNext]_vars

SpecParse == InitParse /\ [][CNext]_vars

SpecEnv == InitEnv /\ [][ENext]_vars

SpecRound == Init /\ [][RNext]_vars

SpecBuild == Init /\ [][BuildNext]_vars

(***************************************************************************)
(* Properties of create_standard_job (SpecCreate).                         *)
(***************************************************************************)
\* A tmp_dir / id list / model that the caller gave: not None and, for a
\* string or a list, not empty (`if tmp_dir:` takes None and "" alike).
GivenStr(o) == o # None /\ o[1] # ""
GivenModel(o) == o # None
NonEmptyIds(o) == IF o = None THEN {} ELSE {o[1][i] : i \in 1..Len(o[1])} \ {""}

\* The inputs the data model admits: container runnables, a compute config
\* with accelerator type and count set together and a recognized provisioning
\* model, and a size for the temporary directory when one is asked for.
CsjValidInput(a) ==
    /\ \A i \in 1..Len(a.runnables) : a.runnables[i].cls = "ContainerRunnable"
    /\ (a.compute_config.fields.accelerator_type # "")
           <=> (a.compute_config.fields.accelerator_count > 0)
    /\ a.compute_config.fields.provisioning_model \in {"SPOT", "STANDARD"}
    /\ GivenStr(a.tmp_dir) => a.tmp_dir_size_gb # None

CsjReturned == csj_pc = "returned"

\* C1: for every valid (region, compute config, task count, runnables) input
\* create_standard_job returns a document (it does not raise), and every
\* document it returns has taskGroups[0].taskCount equal to the given task
\* count and exactly len(runnables) runnables, the i-th being
\* {"container": <the fields of the i-th input runnable>}.
C1_RunnablesInInputOrder ==
    /\ csj_pc = "raised" => ~CsjValidInput(csj_args[1])
    /\ CsjReturned =>
        LET a == csj_args[1]
            group == csj_job[1].taskGroups[1]
            out == group.taskSpec.runnables
        IN  /\ group.taskCount = a.task_count
            /\ Len(out) = Len(a.runnables)
            /\ \A i \in 1..Len(out) :
                /\ DOMAIN out[i] = {"container"}
                /\ DOMAIN out[i].container = {"image_uri", "entrypoint", "commands"}
                /\ out[i].container.image_uri = a.runnables[i].fields.image_uri
                /\ out[i].container.entrypoint = a.runnables[i].fields.entrypoint
                /\ out[i].container.commands = a.runnables[i].fields.commands

\* A document returned for two different runnables.
C1_Witness ==
    /\ CsjReturned
    /\ Len(csj_args[1].runnables) = 2
    /\ csj_args[1].runnables[1] # csj_args[1].runnables[2]
    /\ Len(TaskSpec(csj_job[1]).runnables) = 2

CsjRank(name) ==
    CASE name = "create_job_base" -> 1
      [] name = "add_runnable" -> 2
      [] name = "apply_allocation_policy" -> 3
      [] name = "apply_cloud_log_policy" -> 4
      [] name = "add_tmp_dir" -> 5
      [] name = "add_networking_interface" -> 6
      [] name = "add_service_account" -> 7
      [] name = "add_job_dependencies" -> 8

CsjExpectedCalls(a) ==
    <<"create_job_base">> \o Repeat("add_runnable", Len(a.runnables))
    \o <<"apply_allocation_policy", "apply_cloud_log_policy">>
    \o (IF GivenStr(a.tmp_dir) THEN <<"add_tmp_dir">> ELSE <<>>)
    \o (IF GivenModel(a.network_interface) THEN <<"add_networking_interface">> ELSE <<>>)
    \o (IF GivenModel(a.service_account) THEN <<"add_service_account">> ELSE <<>>)
    \o (IF Len(a.depends_on_job_ids) > 0 /\ Len(a.depends_on_job_ids[1]) > 0
        THEN <<"add_job_dependencies">> ELSE <<>>)

\* C2: create_standard_job calls its steps in the order base, runnables,
\* allocation policy, logging policy, tmp dir, network interface, service
\* account, dependencies; every document it returns carries the allocation
\* policy and logsPolicy CLOUD_LOGGING, and carries the 'job-workspace' disk,
\* the volume mounted at tmp_dir and TMPDIR iff a (non-empty) tmp_dir was
\* given, a network interface entry iff network_interface was given,
\* serviceAccount iff service_account was given, and dependencies iff
\* depends_on_job_ids holds at least one non-empty id.
C2_FixedOrderAndSections ==
    /\ \A i, j \in 1..Len(csj_calls) :
           i < j => CsjRank(csj_calls[i]) <= CsjRank(csj_calls[j])
    /\ CsjReturned =>
        LET a == csj_args[1]
            job == csj_job[1]
            ts == TaskSpec(job)
            tmp == GivenStr(a.tmp_dir)
            variables == IF "environment" \in DOMAIN ts
                         THEN ts.environment.variables ELSE EmptyDict
        IN  /\ csj_calls = CsjExpectedCalls(a)
            /\ "allocationPolicy" \in DOMAIN job
            /\ job.allocationPolicy.instances[1].policy.machineType
                   = a.compute_config.fields.machine_type
            /\ job.logsPolicy = [destination |-> "CLOUD_LOGGING"]
            /\ (\E i \in 1..Len(Disks(job)) :
                    Disks(job)[i].deviceName = "job-workspace") <=> tmp
            /\ (\E i \in 1..Len(Volumes(job)) :
                    /\ Volumes(job)[i].deviceName = "job-workspace"
                    /\ tmp => Volumes(job)[i].mountPath = a.tmp_dir[1]) <=> tmp
            /\ ("TMPDIR" \in DOMAIN variables) <=> tmp
            /\ tmp => variables["TMPDIR"] = a.tmp_dir[1]
            /\ Len(Interfaces(job)) = (IF GivenModel(a.network_interface) THEN 1 ELSE 0)
            /\ ("serviceAccount" \in DOMAIN job.allocationPolicy)
                   <=> GivenModel(a.service_account)
            /\ ("dependencies" \in DOMAIN job) <=> NonEmptyIds(a.depends_on_job_ids) # {}

\* A document returned with every optional section asked for.
C2_Witness ==
    /\ CsjReturned
    /\ GivenStr(csj_args[1].tmp_dir)
    /\ GivenModel(csj_args[1].network_interface)
    /\ GivenModel(csj_args[1].service_account)
    /\ NonEmptyIds(csj_args[1].depends_on_job_ids) # {}
    /\ Len(csj_calls) = 8

(***************************************************************************)
(* Properties of the builder steps (Spec).                                 *)
(***************************************************************************)
BApplied == b_last'.name = "apply_allocation_policy"

\* C3: apply_allocation_policy raises a validation error (ValueError) iff
\* exactly one of accelerator type / count is set, or the provisioning model
\* is neither SPOT nor STANDARD; when it raises, the document is exactly as
\* before the call; in every other case it returns.
C3_AllocationValidation ==
    [][BApplied =>
        LET cc == b_last'.compute_config.fields
            oneWithoutOther == (cc.accelerator_type # "") # (cc.accelerator_count # 0)
            unknownModel == cc.provisioning_model # "SPOT"
                            /\ cc.provisioning_model # "STANDARD"
        IN  /\ (b_last'.exc # NoExc) <=> (oneWithoutOther \/ unknownModel)
            /\ b_last'.exc # NoExc =>
                /\ b_last'.exc \in
                     {"ValueError: GPU type and GPU count must be set together",
                      "ValueError: Provisioning model must be either SPOT or STANDARD"}
                /\ b_job' = b_job]_vars

\* A rejected call on a document that already had an allocation policy.
C3_Witness ==
    /\ b_last.name = "apply_allocation_policy"
    /\ b_last.exc = "ValueError: Provisioning model must be either SPOT or STANDARD"
    /\ Len(Disks(b_job)) > 0

\* C4: when apply_allocation_policy returns, the allocation policy has the
\* machine type and provisioning model of the compute config and
\* allowedLocations = ['regions/{region}']; installGpuDrivers = true and a
\* one-element accelerators list (type, count) are there iff the accelerator
\* type is set, and neither field is there otherwise.
C4_AllocationPolicyContent ==
    [][(BApplied /\ b_last'.exc = NoExc) =>
        LET cc == b_last'.compute_config.fields
            ap == b_job'.allocationPolicy
            instance == ap.instances[1]
        IN  /\ Len(ap.instances) = 1
            /\ instance.policy.machineType = cc.machine_type
            /\ instance.policy.provisioningModel = cc.provisioning_model
            /\ ap.location.allowedLocations = <<"regions/" \o b_last'.region>>
            /\ ("installGpuDrivers" \in DOMAIN instance) <=> (cc.accelerator_type # "")
            /\ ("accelerators" \in DOMAIN instance.policy) <=> (cc.accelerator_type # "")
            /\ cc.accelerator_type # "" =>
                /\ instance.installGpuDrivers = TRUE
                /\ instance.policy.accelerators =
                       <<[type |-> cc.accelerator_type, count |-> cc.accelerator_count]>>]_vars

\* A policy applied without an accelerator, over one that had one.
C4_Witness ==
    /\ b_last.name = "apply_allocation_policy"
    /\ b_last.exc = NoExc
    /\ b_last.compute_config.fields.accelerator_type = ""
    /\ "accelerators" \notin DOMAIN b_job.allocationPolicy.instances[1].policy
    /\ "logsPolicy" \in DOMAIN b_job

\* n = max(ceil(s), 1), said without ceil: n is a whole number, at least 1, not
\* smaller than s, and the smallest such.
IsSizeGb(n, s) ==
    /\ n \in Int
    /\ n >= 1
    /\ n * s.den >= s.num
    /\ n = 1 \/ (n - 1) * s.den < s.num

\* C5: for every size s (fractional, zero, negative), add_attached_disk on a
\* document with an allocation policy appends exactly one disk descriptor
\* after the existing ones, which stay as they were, and its sizeGb is the
\* whole number max(ceil(s), 1).
C5_DiskSizeRoundedUp ==
    [][(b_last'.name = "add_attached_disk" /\ "allocationPolicy" \in DOMAIN b_job) =>
        LET old == Disks(b_job)
            new == Disks(b_job')
        IN  /\ b_last'.exc = NoExc
            /\ Len(new) = Len(old) + 1
            /\ SubSeq(new, 1, Len(old)) = old
            /\ new[Len(new)].deviceName = b_last'.device_name
            /\ new[Len(new)].newDisk.type = "pd-balanced"
            /\ IsSizeGb(new[Len(new)].newDisk.sizeGb, b_last'.size_gb)]_vars

\* 123.456 GB asked for after another disk: the second disk has 124 GB.
C5_Witness ==
    /\ b_last.name = "add_attached_disk"
    /\ b_last.size_gb = Rat(15432, 125)
    /\ Len(Disks(b_job)) = 2
    /\ Disks(b_job)[2].newDisk.sizeGb = 124

(***************************************************************************)
(* Properties of add_job_dependencies over several documents (SpecDeps).   *)
(***************************************************************************)
\* C6: after any calls of add_job_dependencies on any of the documents, a
\* document for which only empty ids were passed is unchanged and has no
\* 'dependencies'; any other has exactly one dependency group, whose items
\* are exactly the non-empty ids passed for that document, each 'SUCCEEDED'
\* (so no id passed for one document shows in another).
C6_DependenciesPerDocument ==
    \A d \in 1..NumDocs :
        IF d_passed[d] = {}
        THEN d_docs[d] = EmptyDict
        ELSE /\ DOMAIN d_docs[d] = {"dependencies"}
             /\ LET deps == Dependencies(d_docs[d], heap)
                IN  /\ Len(deps) = 1
                    /\ DOMAIN deps[1] = {"items"}
                    /\ DOMAIN deps[1].items = d_passed[d]
                    /\ \A k \in d_passed[d] : deps[1].items[k] = "SUCCEEDED"

\* Two documents given different ids, the second in two calls.
C6_Witness ==
    /\ d_passed[1] = {"job-1"}
    /\ d_passed[2] = {"job-2", "job-3"}
    /\ d_docs[1].dependencies # d_docs[2].dependencies

(***************************************************************************)
(* Properties of prepare_multitask_job (SpecPrepare).                      *)
(***************************************************************************)
PPrepared == p_last'.name = "prepare_multitask_job"

\* A task-list form is given when it is a non-empty list (the code tests
\* `if tasks`, `if runnable_tasks`: None and [] are alike).
GivenList(o) == o # None /\ o[1] # <<>>

PRunnables(job) ==
    IF "runnables" \in DOMAIN TaskSpec(job) THEN TaskSpec(job).runnables ELSE <<>>

PJobVariables(job) ==
    IF "environment" \in DOMAIN TaskSpec(job)
    THEN TaskSpec(job).environment.variables ELSE EmptyDict

PRunnableVariables(runnable) ==
    IF "environment" \in DOMAIN runnable THEN runnable.environment.variables ELSE EmptyDict

\* The JSON array a list of payloads is to be stored as: their field
\* mappings, in the order of the list.
PayloadArray(tasks) == [i \in 1..Len(tasks) |-> tasks[i].fields]

PSharedForm(last) == GivenList(last.tasks) /\ ~GivenList(last.runnable_tasks)
PPerRunnableForm(last) == GivenList(last.runnable_tasks) /\ ~GivenList(last.tasks)

PValidationErrors ==
    {"ValueError: Specify tasks or runnable_tasks, not both",
     "ValueError: No runnables found in the job definition",
     "ValueError: Need tasks for each of {num_runnables} runnables",
     "ValueError: Need {num_tasks} tasks for runnable {i}",
     "ValueError: Need {num_tasks} tasks",
     "ValueError: Need to specify either tasks or runnable_tasks"}

\* C7: prepare_multitask_job raises a validation error (ValueError) exactly
\* when both task-list forms are given, or neither is, or the document has no
\* runnables, or (per-runnable form) the number of lists differs from the
\* number of runnables or some list's length differs from taskCount, or
\* (shared form) the list's length differs from taskCount; otherwise it
\* returns.
C7_PrepareValidation ==
    [][PPrepared =>
        LET last == p_last'
            n == Len(PRunnables(p_job))
            task_count == p_job.taskGroups[1].taskCount
            both == GivenList(last.tasks) /\ GivenList(last.runnable_tasks)
            neither == ~GivenList(last.tasks) /\ ~GivenList(last.runnable_tasks)
            badLists == /\ PPerRunnableForm(last)
                        /\ \/ Len(last.runnable_tasks[1]) # n
                           \/ \E k \in 1..Len(last.runnable_tasks[1]) :
                                  Len(last.runnable_tasks[1][k]) # task_count
            badShared == PSharedForm(last) /\ Len(last.tasks[1]) # task_count
        IN  /\ (last.exc # NoExc) <=> (both \/ neither \/ n = 0 \/ badLists \/ badShared)
            /\ last.exc \in PValidationErrors \cup {NoExc}]_vars

\* A call rejected only because its second per-runnable list is too short.
C7_Witness ==
    /\ p_last.name = "prepare_multitask_job"
    /\ p_last.exc = "ValueError: Need {num_tasks} tasks for runnable {i}"
    /\ p_last.tasks = None
    /\ Len(p_last.runnable_tasks[1]) = 2
    /\ Len(p_last.runnable_tasks[1][1]) = p_job.taskGroups[1].taskCount

\* C8: in the shared form, with a task list as long as taskCount (on a
\* document that has runnables), prepare_multitask_job opens exactly one file
\* for writing, '{working_directory}/tasks.json', which then holds the
\* payloads as one JSON array in their order, and sets the task group's
\* GBATCHKIT_ARGS_PATH to that path; no runnable is changed and no other file
\* is written.
C8_SharedFormOneFile ==
    [][(/\ PPrepared
        /\ PSharedForm(p_last')
        /\ Len(p_last'.tasks[1]) = p_job.taskGroups[1].taskCount
        /\ Len(PRunnables(p_job)) > 0) =>
        LET path == p_last'.working_directory \o "/tasks.json"
        IN  /\ p_last'.exc = NoExc
            /\ p_last'.writes = <<path>>
            /\ DOMAIN fs' = DOMAIN fs \cup {path}
            /\ \A f \in DOMAIN fs \ {path} : fs'[f] = fs[f]
            /\ fs'[path] = [format |-> "json", array |-> PayloadArray(p_last'.tasks[1])]
            /\ PJobVariables(p_job') =
                   SetItem(PJobVariables(p_job), "GBATCHKIT_ARGS_PATH", path)
            /\ PRunnables(p_job') = PRunnables(p_job)]_vars

\* Two different payloads, a dict and a typed object, written in their order.
C8_Witness ==
    /\ p_last.name = "prepare_multitask_job"
    /\ p_last.exc = NoExc
    /\ PSharedForm(p_last)
    /\ Len(p_last.tasks[1]) = 2
    /\ p_last.tasks[1][1] = TaskArgs(100, "value1")
    /\ p_last.tasks[1][2] # p_last.tasks[1][1]
    /\ Len(PRunnables(p_job)) = 2
    /\ DOMAIN fs = {"/test-dir/tasks.json"}

\* Python's str(i) for the indexes the model reaches.
PIndexText(i) == CASE i = 0 -> "0" [] i = 1 -> "1" [] i = 2 -> "2" [] i = 3 -> "3"
                   [] i = 4 -> "4"

\* C9: in the per-runnable form with N runnables and N lists, each as long as
\* taskCount, prepare_multitask_job opens exactly N files for writing, list i
\* to '{working_directory}/runnable_{i}_tasks.json' in its order, and sets
\* GBATCHKIT_ARGS_PATH on runnable i to that file; the task group's variables
\* are not touched, and the N paths are pairwise distinct.
C9_PerRunnableFiles ==
    [][(/\ PPrepared
        /\ PPerRunnableForm(p_last')
        /\ Len(p_last'.runnable_tasks[1]) = Len(PRunnables(p_job))
        /\ \A k \in 1..Len(p_last'.runnable_tasks[1]) :
               Len(p_last'.runnable_tasks[1][k]) = p_job.taskGroups[1].taskCount) =>
        LET lists == p_last'.runnable_tasks[1]
            N == Len(lists)
            path == [k \in 1..N |-> p_last'.working_directory \o "/runnable_"
                                        \o PIndexText(k - 1) \o "_tasks.json"]
        IN  /\ p_last'.exc = NoExc
            /\ p_last'.writes = path
            /\ \A j, k \in 1..N : j # k => path[j] # path[k]
            /\ DOMAIN fs' = DOMAIN fs \cup {path[k] : k \in 1..N}
            /\ Len(PRunnables(p_job')) = N
            /\ \A k \in 1..N :
                /\ fs'[path[k]] = [format |-> "json", array |-> PayloadArray(lists[k])]
                /\ PRunnableVariables(PRunnables(p_job')[k]) =
                       SetItem(PRunnableVariables(PRunnables(p_job)[k]),
                               "GBATCHKIT_ARGS_PATH", path[k])
                /\ PRunnables(p_job')[k].container = PRunnables(p_job)[k].container
            /\ PJobVariables(p_job') = PJobVariables(p_job)
            /\ ("environment" \in DOMAIN TaskSpec(p_job'))
                   <=> ("environment" \in DOMAIN TaskSpec(p_job))]_vars

\* Two runnables, two different lists: each file holds its own list.
C9_Witness ==
    /\ p_last.name = "prepare_multitask_job"
    /\ p_last.exc = NoExc
    /\ PPerRunnableForm(p_last)
    /\ Len(p_last.runnable_tasks[1]) = 2
    /\ p_last.runnable_tasks[1][1] # p_last.runnable_tasks[1][2]
    /\ Len(p_last.runnable_tasks[1][1]) = 2
    /\ fs["/test-dir/runnable_0_tasks.json"] # fs["/test-dir/runnable_1_tasks.json"]

(***************************************************************************)
(* Properties of get_task_arguments (SpecArgs).                            *)
(***************************************************************************)
GCalled == g_last.name = "get_task_arguments"

GConfigurationError ==
    "ValueError: Need GBATCHKIT_ARGS_PATH env, or task_args_cls to read from args"

\* The variable counts as set when it has a non-empty value (the code tests
\* `elif args_path:`).
GArgsPathSet == "GBATCHKIT_ARGS_PATH" \in DOMAIN environ /\ environ["GBATCHKIT_ARGS_PATH"] # ""

\* What a call used: the parser on a token list, or the file the variable
\* names, or neither.
GParsed(tokens) == g_last.parsed = Some(tokens) /\ g_last.opened = <<>>
GReadFile == g_last.opened = <<environ["GBATCHKIT_ARGS_PATH"]>> /\ g_last.parsed = None
GFailedUnresolved ==
    g_last.exc = GConfigurationError /\ g_last.opened = <<>> /\ g_last.parsed = None

\* C10 as stated: the source is the explicit tokens when tokens and schema
\* are both supplied, else the environment-indexed file when the variable is
\* set, else the process command line when a schema is supplied, else the
\* configuration error.
C10_Original ==
    GCalled =>
        /\ IF GivenList(g_last.args) /\ g_last.task_args_cls # None
           THEN GParsed(g_last.args[1])
           ELSE IF GArgsPathSet THEN GReadFile
           ELSE IF g_last.task_args_cls # None THEN GParsed(argv)
           ELSE GFailedUnresolved
        /\ (g_last.exc = GConfigurationError)
               <=> (g_last.task_args_cls = None /\ ~GArgsPathSet)

\* C10: get_task_arguments chooses its source by strict priority: the
\* explicit tokens, parsed against the schema, when a non-empty token list
\* and a schema are both supplied (the file is then not read, whatever the
\* variable); else the environment-indexed file when GBATCHKIT_ARGS_PATH is
\* set to a non-empty value; else, when a schema is supplied, the parser on
\* the process command line if args is None and on the (empty) list passed as
\* args otherwise; else the configuration error, which is raised exactly when
\* no schema is supplied and the variable is unset or empty.
C10_SourcePriority ==
    GCalled =>
        /\ IF GivenList(g_last.args) /\ g_last.task_args_cls # None
           THEN GParsed(g_last.args[1])
           ELSE IF GArgsPathSet THEN GReadFile
           ELSE IF g_last.task_args_cls # None
           THEN GParsed(IF g_last.args = None THEN argv ELSE <<>>)
           ELSE GFailedUnresolved
        /\ (g_last.exc = GConfigurationError)
               <=> (g_last.task_args_cls = None /\ ~GArgsPathSet)

\* Explicit tokens and a schema, with the variable naming a file that is
\* there: the tokens win and the file is not opened.
C10_Witness ==
    /\ GCalled
    /\ g_last.args = Some(<<"--arg1", "200", "--arg2", "value2">>)
    /\ g_last.task_args_cls # None
    /\ GArgsPathSet
    /\ environ["GBATCHKIT_ARGS_PATH"] \in DOMAIN fs
    /\ "BATCH_TASK_INDEX" \in DOMAIN environ
    /\ g_last.opened = <<>>
    /\ g_last.value = Some(TaskArgs(200, "value2"))

\* A step in which get_task_arguments is called: the files and the process
\* environment are those the call saw.
GResolved ==
    /\ g_last'.name = "get_task_arguments"
    /\ fs' = fs /\ environ' = environ /\ argv' = argv

\* The zero-based index BATCH_TASK_INDEX holds, written in decimal.
GIndex == CHOOSE i \in 0..3 : ToString(i) = environ["BATCH_TASK_INDEX"]

GSchemaKeys(cls) == {cls.model_fields[k].key : k \in 1..Len(cls.model_fields)}

\* C11: when get_task_arguments resolves from the environment file, the file
\* holds a JSON array of n elements and BATCH_TASK_INDEX = i with 0 <= i < n,
\* the call yields the i-th element (zero-based) and no other: without a
\* schema it returns that mapping as it is; with a schema it returns the
\* typed object whose fields are that mapping's values for the fields the
\* schema declares, and the only way it does not return is the schema's own
\* rejection of that element (a required field the element lacks).
C11_IndexedElement ==
    [][(/\ GResolved
        /\ g_last'.opened # <<>>
        /\ g_last'.opened[1] \in DOMAIN fs
        /\ "BATCH_TASK_INDEX" \in DOMAIN environ
        /\ \E i \in 0..3 : /\ ToString(i) = environ["BATCH_TASK_INDEX"]
                           /\ i < Len(fs[g_last'.opened[1]].array)) =>
        LET element == fs[g_last'.opened[1]].array[GIndex + 1]
            cls == g_last'.task_args_cls
        IN  /\ g_last'.opened = <<environ["GBATCHKIT_ARGS_PATH"]>>
            /\ IF cls = None
               THEN g_last'.exc = NoExc /\ g_last'.value = Some(Dict(element))
               ELSE IF GSchemaKeys(cls[1]) \subseteq DOMAIN element
               THEN /\ g_last'.exc = NoExc
                    /\ g_last'.value[1].cls = cls[1].name
                    /\ DOMAIN g_last'.value[1].fields = GSchemaKeys(cls[1])
                    /\ \A f \in GSchemaKeys(cls[1]) :
                           g_last'.value[1].fields[f] = element[f]
               ELSE g_last'.exc = "ValidationError" /\ g_last'.value = None]_vars

\* A file of two different elements and index 1: the second is returned,
\* typed, and not the first.
C11_Witness ==
    /\ GCalled
    /\ g_last.opened = <<"/test-dir/tasks.json">>
    /\ "/test-dir/tasks.json" \in DOMAIN fs
    /\ Len(fs["/test-dir/tasks.json"].array) = 2
    /\ fs["/test-dir/tasks.json"].array[1] # fs["/test-dir/tasks.json"].array[2]
    /\ "BATCH_TASK_INDEX" \in DOMAIN environ
    /\ environ["BATCH_TASK_INDEX"] = "1"
    /\ g_last.task_args_cls # None
    /\ g_last.exc = NoExc
    /\ g_last.value = Some(TaskArgs(200, "value2"))
    /\ fs["/test-dir/tasks.json"].array[2] = [arg1 |-> 200, arg2 |-> "value2"]

(***************************************************************************)
(* Properties of submit_job (SpecSubmit).                                  *)
(***************************************************************************)
SCalled == s_pc # "idle"

SValidationErrors ==
    {"ValueError: Job definition is empty",
     "ValueError: Job ID must be 1-64 characters",
     "ValueError: Region is required"}

SInvalidInput ==
    \/ DOMAIN s_last.job = {}
    \/ s_last.job_id = ""
    \/ Len(s_last.job_id) > 64
    \/ s_last.region = ""

\* C12: submit_job fails with a validation error (ValueError) if and only if
\* the document is empty, or the job id is empty or longer than 64 characters,
\* or the region is empty; a call that fails this way has written no file and
\* has not invoked the external tool.
C12_SubmitValidation ==
    SCalled =>
        /\ (s_last.exc \in SValidationErrors) <=> SInvalidInput
        /\ SInvalidInput =>
            /\ s_pc = "raised"
            /\ s_events = <<>>
            /\ s_file = None
            /\ s_last.file_name = None
            /\ s_last.returncode = None

\* A 65-character job id is rejected although everything else is valid, and
\* nothing was written or run.
C12_Witness ==
    /\ s_pc = "raised"
    /\ Len(s_last.job_id) = 65
    /\ DOMAIN s_last.job # {} /\ s_last.region # ""
    /\ s_last.exc = "ValueError: Job ID must be 1-64 characters"
    /\ s_events = <<>>

\* C13: on valid input, submit_job writes the serialized document to the
\* temporary file before anything else, then invokes the external tool once,
\* with 'gcloud batch jobs submit <jobId> --location <region> --config <file>'
\* and with the file holding the serialized document, and never again; the
\* call returns exactly when the exit status is 0 and raises a RuntimeError
\* carrying the tool's error stream exactly when it is not.
C13_WriteThenSubmitOnce ==
    (SCalled /\ ~SInvalidInput) =>
        LET name == s_last.file_name[1]
            content == [format |-> "json", array |-> s_last.job]
            written == [op |-> "write", path |-> name, content |-> content]
            invoked == [op |-> "run",
                        cmd |-> <<"gcloud", "batch", "jobs", "submit", s_last.job_id,
                                  "--location", s_last.region, "--config", name>>,
                        file |-> Some(content)]
        IN  /\ s_pc \in {"write", "run", "returned", "raised"}
            /\ s_pc = "write" => s_events = <<>>
            /\ s_pc = "run" => s_events = <<written>> /\ s_file = Some(content)
            /\ s_pc \in {"returned", "raised"} =>
                /\ s_events = <<written, invoked>>
                /\ s_last.returncode # None
                /\ (s_pc = "returned") <=> (s_last.returncode[1] = 0)
                /\ (s_pc = "returned") => s_last.exc = NoExc
                /\ (s_pc = "raised") =>
                       s_last.exc = "RuntimeError: Failed to submit job: " \o s_last.stderr[1]

\* The tool has failed with status 2 and a diagnostic, after one invocation.
C13_Witness ==
    /\ s_pc = "raised"
    /\ s_last.returncode = Some(2)
    /\ s_last.stderr = Some("quota exceeded")
    /\ s_last.exc = "RuntimeError: Failed to submit job: quota exceeded"
    /\ Len(s_events) = 2
    /\ s_events[2].op = "run"
    /\ s_last.job_id = "test-job-id" /\ s_last.region = "europe-west4"

(***************************************************************************)
(* Properties of parse_compute_config (SpecParse).                         *)
(***************************************************************************)
CParsed == c_last # None

Count(s, ch) == Cardinality({i \in 1..Len(s) : s[i] = ch})

\* The shorthand taken apart by position: what stands before and after the
\* first '+', and in each of the two what stands before and after its first
\* ':'.
CPlus == IF Count(c_str, "+") = 0 THEN Len(c_str) + 1
         ELSE CHOOSE i \in 1..Len(c_str) :
                  c_str[i] = "+" /\ \A j \in 1..(i - 1) : c_str[j] # "+"
CMachinePart == SubSeq(c_str, 1, CPlus - 1)
CAcceleratorPart == SubSeq(c_str, CPlus + 1, Len(c_str))
Before(s) == IF Count(s, ":") = 0 THEN s
             ELSE SubSeq(s, 1, (CHOOSE i \in 1..Len(s) :
                                    s[i] = ":" /\ \A j \in 1..(i - 1) : s[j] # ":") - 1)
After(s) == SubSeq(s, Len(Before(s)) + 2, Len(s))

\* The decimal numerals the arguments hold.
Numeral(c) == CASE c = <<"0">> -> 0 [] c = <<"2">> -> 2 [] c = <<"2", "0">> -> 20

\* machineType[:provisioningModel][+acceleratorType[:acceleratorCount]], each
\* part that is given non-empty and free of separators, the count a decimal
\* numeral.
CWellFormed ==
    /\ Count(c_str, "+") <= 1
    /\ Count(CMachinePart, ":") <= 1
    /\ Count(CAcceleratorPart, ":") <= 1
    /\ Before(CMachinePart) # <<>>
    /\ Count(CMachinePart, ":") = 1 => After(CMachinePart) # <<>>
    /\ Count(c_str, "+") = 1 => Before(CAcceleratorPart) # <<>>
    /\ Count(CAcceleratorPart, ":") = 1 =>
           After(CAcceleratorPart) \in {<<"0">>, <<"2">>, <<"2", "0">>}

\* C14: for every well-formed shorthand parse_compute_config returns the
\* machine type and any given provisioning model, accelerator type and count
\* unchanged, with provisioning model SPOT when omitted, accelerator count 1
\* when an accelerator type is given without a count, and accelerator type ''
\* with count 0 when no accelerator part is given.
C14_ParseWellFormed ==
    (CParsed /\ CWellFormed) =>
        /\ c_last[1].exc = NoExc
        /\ c_last[1].value # None
        /\ LET cc == c_last[1].value[1].fields
           IN  /\ c_last[1].value[1].cls = "ComputeConfig"
               /\ cc.machine_type = str(Before(CMachinePart))
               /\ cc.provisioning_model =
                      IF Count(CMachinePart, ":") = 1 THEN str(After(CMachinePart))
                      ELSE "SPOT"
               /\ cc.accelerator_type =
                      IF Count(c_str, "+") = 1 THEN str(Before(CAcceleratorPart)) ELSE ""
               /\ cc.accelerator_count =
                      IF Count(CAcceleratorPart, ":") = 1
                      THEN Numeral(After(CAcceleratorPart))
                      ELSE IF Count(c_str, "+") = 1 THEN 1 ELSE 0

\* 'n+n' has been parsed: an accelerator type without a count gets count 1.
C14_Witness ==
    /\ CParsed
    /\ c_str = <<"n", "+", "n">>
    /\ c_last[1].exc = NoExc
    /\ c_last[1].value = Some(ComputeConfig("n", "SPOT", "n", 1))

CValueErrors ==
    {"ValueError: Invalid compute config format",
     "ValueError: Machine type is required",
     "ValueError: Invalid machine type/provisioning model",
     "ValueError: invalid literal for int()",
     "ValueError: Accelerator count specified without accelerator type",
     "ValueError: Invalid accelerator type/count"}

\* The malformed inputs: an empty machine type (the whole string empty, or
\* nothing before the ':' or the '+'), more than one '+', more than one ':' in
\* the machine part or in the accelerator part, an accelerator count without
\* an accelerator type.
CMalformed ==
    \/ c_str = <<>>
    \/ Before(CMachinePart) = <<>>
    \/ Count(c_str, "+") > 1
    \/ Count(CMachinePart, ":") > 1
    \/ Count(CAcceleratorPart, ":") > 1
    \/ /\ Count(c_str, "+") = 1
       /\ Count(CAcceleratorPart, ":") = 1
       /\ Before(CAcceleratorPart) = <<>>
       /\ After(CAcceleratorPart) # <<>>

\* C15: parse_compute_config fails with a validation error (ValueError), and
\* returns no ComputeConfig, for every malformed input.
C15_MalformedRejected ==
    (CParsed /\ CMalformed) =>
        /\ c_last[1].exc \in CValueErrors
        /\ c_last[1].value = None

\* ':n' has been parsed: nothing stands before the ':', and a ComputeConfig
\* with an empty machine type is returned.
C15_Witness ==
    /\ CParsed
    /\ c_str = <<":", "n">>
    /\ c_last[1].exc = NoExc
    /\ c_last[1].value = Some(ComputeConfig("", "n", "", 0))

\* C18: every ComputeConfig parse_compute_config returns has a non-empty
\* accelerator type if and only if its accelerator count is greater than
\* zero, and never a negative count, so apply_allocation_policy never rejects
\* it with 'GPU type and GPU count must be set together'.
C18_ParsedConfigInvariant ==
    (CParsed /\ c_last[1].value # None) =>
        LET cc == c_last[1].value[1].fields
        IN  /\ (cc.accelerator_type # "") <=> (cc.accelerator_count > 0)
            /\ cc.accelerator_count >= 0
            /\ apply_allocation_policy(create_job_base(1, 1, 1), "us-central1",
                                       c_last[1].value[1]).exc
                   # "ValueError: GPU type and GPU count must be set together"

\* 'n+n:0' has been parsed: the returned config has an accelerator type and
\* count 0, and apply_allocation_policy rejects it.
C18_Witness ==
    /\ CParsed
    /\ c_str = <<"n", "+", "n", ":", "0">>
    /\ c_last[1].value = Some(ComputeConfig("n", "SPOT", "n", 0))
    /\ apply_allocation_policy(create_job_base(1, 1, 1), "us-central1",
                               c_last[1].value[1]).exc
           = "ValueError: GPU type and GPU count must be set together"

(***************************************************************************)
(* Properties of the environment variable setters (SpecEnv).               *)
(***************************************************************************)
ETarget(job, t) == IF t = 0 THEN TaskSpec(job) ELSE TaskSpec(job).runnables[t]

EVariables(d) ==
    IF "environment" \in DOMAIN d /\ "variables" \in DOMAIN d.environment
    THEN d.environment.variables ELSE EmptyDict

\* What a target's environment holds besides "variables".
EEnvironmentRest(d) ==
    IF "environment" \in DOMAIN d
    THEN [x \in DOMAIN d.environment \ {"variables"} |-> d.environment[x]]
    ELSE EmptyDict

EWithoutEnvironment(d) == [x \in DOMAIN d \ {"environment"} |-> d[x]]

\* The document without any environment: everything outside the mappings the
\* setters write to.
EOutside(job) ==
    LET ts == TaskSpec(job)
    IN  WithTaskSpec(job,
            EWithoutEnvironment(
                [ts EXCEPT !.runnables =
                    [i \in 1..Len(ts.runnables) |-> EWithoutEnvironment(ts.runnables[i])]]))

ESetterCalled ==
    e_last'.name \in {"set_job_environment_variable", "set_runnable_environment_variable"}

\* The same call made once more on the document the call has left.
ERepeated ==
    IF e_last'.target = 0
    THEN set_job_environment_variable(e_job', e_last'.key, e_last'.value).job
    ELSE [e_job' EXCEPT !.taskGroups[1].taskSpec.runnables[e_last'.target] =
             set_runnable_environment_variable(@, e_last'.key, e_last'.value)]

\* C16: after any sequence of calls, every target's variables mapping holds,
\* for each key set on it, the value of the last call made for that key (by a
\* setter, by add_tmp_dir or by prepare_multitask_job) and no other key.  A
\* call of set_job_environment_variable or set_runnable_environment_variable
\* sets its key, changes no other key, no other target and nothing outside
\* the variables mapping, keeps what the environment already held, and made
\* once more leaves the document unchanged.
C16_LastWriteWins ==
    [][/\ \A t \in EnvTargets(e_job') :
              EVariables(ETarget(e_job', t)) = e_last'.written[t]
       /\ ESetterCalled =>
           LET t == e_last'.target
               before == EVariables(ETarget(e_job, t))
               after == EVariables(ETarget(e_job', t))
           IN  /\ e_last'.exc = NoExc
               /\ DOMAIN after = DOMAIN before \cup {e_last'.key}
               /\ after[e_last'.key] = e_last'.value
               /\ \A k \in DOMAIN before \ {e_last'.key} : after[k] = before[k]
               /\ \A u \in EnvTargets(e_job) :
                   /\ EEnvironmentRest(ETarget(e_job', u)) = EEnvironmentRest(ETarget(e_job, u))
                   /\ u # t =>
                       /\ EVariables(ETarget(e_job', u)) = EVariables(ETarget(e_job, u))
                       /\ ("environment" \in DOMAIN ETarget(e_job', u))
                              <=> ("environment" \in DOMAIN ETarget(e_job, u))
               /\ EOutside(e_job') = EOutside(e_job)
               /\ ERepeated = e_job']_vars

\* add_tmp_dir has set TMPDIR, a setter has overwritten a key twice, and the
\* shared form of prepare_multitask_job came last: TMPDIR is still there
\* beside GBATCHKIT_ARGS_PATH, and the first runnable kept its secrets.
C16_Witness ==
    /\ e_last.name = "prepare_multitask_job"
    /\ e_last.value = "shared"
    /\ e_last.exc = NoExc
    /\ EVariables(TaskSpec(e_job)) =
           [TMPDIR |-> "/scratch", GBATCHKIT_ARGS_PATH |-> "/test-dir/tasks.json"]
    /\ Len(Volumes(e_job)) = 1
    /\ EVariables(ETarget(e_job, 1)) = [TMPDIR |-> "b", GBATCHKIT_ARGS_PATH |-> "a"]
    /\ EEnvironmentRest(ETarget(e_job, 1)) = [secretVariables |-> [TOKEN |-> "secret-1"]]

(***************************************************************************)
(* Failure of prepare_multitask_job (SpecPrepare).                         *)
(***************************************************************************)
\* C17: whenever prepare_multitask_job fails with a validation error it has
\* had no partial effect: no task file has been written and no
\* GBATCHKIT_ARGS_PATH variable has been set, on the task group or on any
\* runnable; in the per-runnable form with list k of the wrong length,
\* runnables 0..k-1 have no variable and no file.
C17_NoPartialEffect ==
    [][(PPrepared /\ p_last'.exc \in PValidationErrors) =>
        /\ p_last'.writes = <<>>
        /\ fs' = fs
        /\ PJobVariables(p_job') = PJobVariables(p_job)
        /\ Len(PRunnables(p_job')) = Len(PRunnables(p_job))
        /\ \A k \in 1..Len(PRunnables(p_job)) :
               PRunnableVariables(PRunnables(p_job')[k]) =
                   PRunnableVariables(PRunnables(p_job)[k])]_vars

\* A call in the per-runnable form has failed on its second list, and the
\* first runnable already has its variable and its file.
C17_Witness ==
    /\ p_last.name = "prepare_multitask_job"
    /\ p_last.exc = "ValueError: Need {num_tasks} tasks for runnable {i}"
    /\ p_last.working_directory = "/test-dir"
    /\ p_last.writes = <<"/test-dir/runnable_0_tasks.json">>
    /\ "/test-dir/runnable_0_tasks.json" \in DOMAIN fs
    /\ PRunnableVariables(PRunnables(p_job)[1]) =
           [GBATCHKIT_ARGS_PATH |-> "/test-dir/runnable_0_tasks.json"]
    /\ PRunnableVariables(PRunnables(p_job)[2]) = EmptyDict

(***************************************************************************)
(* Preparation followed by resolution (SpecRound).                         *)
(***************************************************************************)
\* What the call returned is the payload: the same fields with the same
\* values, as a typed object of the schema when one is supplied and as a raw
\* mapping otherwise.
RResolvesTo(payload) ==
    /\ g_last'.exc = NoExc
    /\ g_last'.value # None
    /\ g_last'.value[1].fields = payload.fields
    /\ g_last'.value[1].cls =
           IF g_last'.task_args_cls = None THEN "dict" ELSE g_last'.task_args_cls[1].name

\* The schema supplied on resolution, if any, is the payload's own.
RSameSchema(payload) ==
    g_last'.task_args_cls = None \/ g_last'.task_args_cls[1].name = payload.cls

\* C19: after prepare_multitask_job has succeeded on a document with
\* taskCount = n, a task process whose GBATCHKIT_ARGS_PATH is the value
\* prepare_multitask_job set for it (the task group's in the shared form, its
\* own runnable's in the per-runnable form) and whose BATCH_TASK_INDEX is i,
\* 0 <= i < n, resolves through get_task_arguments (called without explicit
\* tokens) exactly the i-th payload of the list passed in for it: field for
\* field as a raw mapping when no schema is supplied, and as the equal typed
\* object when the payload was typed and its schema is supplied.  Payload
\* values are numbers and strings, which JSON stores as they are.
C19_RoundTrip ==
    [][(/\ g_last'.name = "get_task_arguments"
        /\ g_last'.args = None
        /\ UNCHANGED <<fs, environ, p_job, p_last>>
        /\ p_last.name = "prepare_multitask_job"
        /\ p_last.exc = NoExc
        /\ "GBATCHKIT_ARGS_PATH" \in DOMAIN environ
        /\ "BATCH_TASK_INDEX" \in DOMAIN environ) =>
        \A i \in 0..(p_job.taskGroups[1].taskCount - 1) :
            ToString(i) = environ["BATCH_TASK_INDEX"] =>
                /\ (/\ PSharedForm(p_last)
                    /\ "GBATCHKIT_ARGS_PATH" \in DOMAIN PJobVariables(p_job)
                    /\ environ["GBATCHKIT_ARGS_PATH"] =
                           PJobVariables(p_job)["GBATCHKIT_ARGS_PATH"]
                    /\ RSameSchema(p_last.tasks[1][i + 1]))
                   => RResolvesTo(p_last.tasks[1][i + 1])
                /\ \A k \in 1..Len(PRunnables(p_job)) :
                       (/\ PPerRunnableForm(p_last)
                        /\ environ["GBATCHKIT_ARGS_PATH"] =
                               PRunnableVariables(PRunnables(p_job)[k])["GBATCHKIT_ARGS_PATH"]
                        /\ RSameSchema(p_last.runnable_tasks[1][k][i + 1]))
                       => RResolvesTo(p_last.runnable_tasks[1][k][i + 1])]_vars

\* Per-runnable form, two runnables with different lists of two different
\* payloads: the process of the second runnable with index 1 has resolved,
\* with the schema, the typed payload that was passed as its second.
C19_Witness ==
    /\ g_last.name = "get_task_arguments"
    /\ g_last.args = None
    /\ g_last.task_args_cls # None
    /\ p_last.name = "prepare_multitask_job"
    /\ p_last.exc = NoExc
    /\ PPerRunnableForm(p_last)
    /\ Len(p_last.runnable_tasks[1]) = 2
    /\ p_last.runnable_tasks[1][1] # p_last.runnable_tasks[1][2]
    /\ p_last.runnable_tasks[1][2] =
           <<Dict([task_id |-> 1, param |-> "value1"]), TaskArgs(100, "value1")>>
    /\ environ = [GBATCHKIT_ARGS_PATH |-> "/test-dir/runnable_1_tasks.json",
                  BATCH_TASK_INDEX |-> "1"]
    /\ g_last.value = Some(TaskArgs(100, "value1"))

(***************************************************************************)
(* apply_allocation_policy on a document built so far (SpecBuild).         *)
(***************************************************************************)
\* C20: apply_allocation_policy replaces the document's whole
\* allocationPolicy: when it returns, the allocation policy holds only the
\* machine type, the provisioning model, the region and (if an accelerator
\* type is set) the accelerator of this call, so no disk, network interface
\* or service account added earlier is there any more; every other key of the
\* document (taskGroups with its volumes and environment variables,
\* logsPolicy, dependencies and the dependency list itself) is as before.
C20_AllocationPolicyReplaced ==
    [][(BApplied /\ b_last'.exc = NoExc) =>
        LET cc == b_last'.compute_config.fields
            ap == b_job'.allocationPolicy
            policy == ap.instances[1].policy
            gpu == IF cc.accelerator_type # "" THEN {"accelerators"} ELSE {}
        IN  /\ DOMAIN ap = {"instances", "location"}
            /\ Len(ap.instances) = 1
            /\ DOMAIN ap.instances[1] =
                   {"policy"} \cup (IF gpu # {} THEN {"installGpuDrivers"} ELSE {})
            /\ DOMAIN policy = {"machineType", "provisioningModel"} \cup gpu
            /\ policy.machineType = cc.machine_type
            /\ policy.provisioningModel = cc.provisioning_model
            /\ ap.location = [allowedLocations |-> <<"regions/" \o b_last'.region>>]
            /\ Disks(b_job') = <<>>
            /\ Interfaces(b_job') = <<>>
            /\ DOMAIN b_job' = DOMAIN b_job \cup {"allocationPolicy"}
            /\ \A k \in DOMAIN b_job \ {"allocationPolicy"} : b_job'[k] = b_job[k]
            /\ heap' = heap]_vars

\* A policy has been applied to a document that has a volume and TMPDIR from
\* add_tmp_dir (which also added a disk), a logs policy and a dependency: the
\* disk is gone, the rest is there.
C20_Witness ==
    /\ b_last.name = "apply_allocation_policy"
    /\ b_last.exc = NoExc
    /\ Len(Volumes(b_job)) = 1
    /\ "environment" \in DOMAIN TaskSpec(b_job)
    /\ "TMPDIR" \in DOMAIN TaskSpec(b_job).environment.variables
    /\ "logsPolicy" \in DOMAIN b_job
    /\ "dependencies" \in DOMAIN b_job
    /\ DOMAIN Dependencies(b_job, heap)[1].items = {"job-1"}
    /\ Disks(b_job) = <<>>
    /\ DOMAIN b_job.allocationPolicy = {"instances", "location"}

====
